---------------------------- MODULE Spec2Model ----------------------------
(***************************************************************************)
(* Entity resolution and company consolidation of the look-through         *)
(* platform (src/lookthrough/inference/entity_resolution.py).               *)
(*                                                                         *)
(* Strings are sequences of one-character strings, so that lower(),        *)
(* strip(), split(), the regular expressions and len() of the source are   *)
(* computed character by character.  The tables on disk (dim_company,      *)
(* fact_reported_holding, dim_entity_alias, entity_resolution_log) are the *)
(* variables; one action is one run of resolve_entities or of              *)
(* consolidate_company_duplicates_safe, from the reads at its start to the *)
(* writes at its end.                                                      *)
(***************************************************************************)
EXTENDS Integers, Sequences, FiniteSets, TLC

(***************************************************************************)
(* Character-level string primitives of Python used by the source.         *)
(***************************************************************************)

\* str.lower() on one character: the upper-case ASCII letters map to their
\* lower-case forms, everything else is unchanged.
LowerMap ==
    [A |-> "a", B |-> "b", C |-> "c", D |-> "d", E |-> "e", F |-> "f", G |-> "g",
     H |-> "h", I |-> "i", J |-> "j", K |-> "k", L |-> "l", M |-> "m", N |-> "n",
     O |-> "o", P |-> "p", Q |-> "q", R |-> "r", S |-> "s", T |-> "t", U |-> "u",
     V |-> "v", W |-> "w", X |-> "x", Y |-> "y", Z |-> "z"]

LowerChar(c) == IF c \in DOMAIN LowerMap THEN LowerMap[c] ELSE c

\* str.lower()
Lower(s) == [i \in 1..Len(s) |-> LowerChar(s[i])]

\* White space as str.strip(), str.split() and the regex class \s see it (the
\* names of this model hold no other white space than the blank).
IsSpace(c) == c = " "

Min(S) == CHOOSE x \in S : \A y \in S : x <= y

Max(S) == CHOOSE x \in S : \A y \in S : y <= x

\* The elements of a finite set of integers in rising order.
Sorted(S) ==
    [k \in 1..Cardinality(S) |->
        CHOOSE x \in S : Cardinality({y \in S : y < x}) = k - 1]

\* str.strip(): from the first to the last non-blank character.
Strip(s) ==
    LET solid == {i \in 1..Len(s) : ~IsSpace(s[i])}
    IN  IF solid = {} THEN <<>> ELSE SubSeq(s, Min(solid), Max(solid))

\* str.split(): the maximal runs of non-blank characters, in order.
Split(s) ==
    LET starts == {i \in 1..Len(s) :
                      ~IsSpace(s[i]) /\ (i = 1 \/ IsSpace(s[i - 1]))}
        EndOf(i) == Min({j \in i..Len(s) : j = Len(s) \/ IsSpace(s[j + 1])})
        order == Sorted(starts)
    IN  [k \in 1..Len(order) |-> SubSeq(s, order[k], EndOf(order[k]))]

\* ' '.join(words)
RECURSIVE Join(_)
Join(words) ==
    IF words = <<>> THEN <<>>
    ELSE IF Len(words) = 1 THEN words[1]
    ELSE words[1] \o <<" ">> \o Join(Tail(words))

\* needle in hay (substring test), and str.find (1-based, 0 when absent).
OccursAt(hay, needle, i) ==
    /\ i + Len(needle) - 1 <= Len(hay)
    /\ \A k \in 1..Len(needle) : hay[i + k - 1] = needle[k]

Find(hay, needle) ==
    LET at == {i \in 1..Len(hay) : OccursAt(hay, needle, i)}
    IN  IF at = {} THEN 0 ELSE Min(at)

Contains(hay, needle) == Find(hay, needle) # 0

\* re.sub(r'\([^)]*\)', '', text): each "(" is removed together with everything
\* up to the next ")"; a "(" with no ")" after it stays.  Position p is inside
\* a match exactly when a "(" at or before p is not closed before p and some
\* ")" stands at or after p.
RemoveParens(s) ==
    LET Removed(p) ==
            /\ \E i \in 1..p : s[i] = "(" /\ \A k \in i..(p - 1) : s[k] # ")"
            /\ \E j \in p..Len(s) : s[j] = ")"
        kept == Sorted({p \in 1..Len(s) : ~Removed(p)})
    IN  [k \in 1..Len(kept) |-> s[kept[k]]]

\* re.sub(r'[,.\(\)]', ' ', text)
PunctToSpace(s) ==
    [i \in 1..Len(s) |-> IF s[i] \in {",", ".", "(", ")"} THEN " " ELSE s[i]]

(***************************************************************************)
(* Module constants.                                                       *)
(***************************************************************************)
\* A faulty variant of COMPANY_SUFFIXES: "partners" is taken for a suffix.
COMPANY_SUFFIXES_with_partners ==
    {<<"i","n","c">>,
     <<"l","l","c">>,
     <<"l","p">>,
     <<"l",".","p",".">>,
     <<"c","o","r","p">>,
     <<"c","o","r","p","o","r","a","t","i","o","n">>,
     <<"l","t","d">>,
     <<"l","i","m","i","t","e","d">>,
     <<"c","o">>,
     <<"h","o","l","d","i","n","g","s">>,
     <<"g","r","o","u","p">>,
     <<"h","o","l","d","c","o">>,
     <<"p","a","r","e","n","t">>,
     <<"t","o","p","c","o">>,
     <<"b","i","d","c","o">>,
     <<"b","u","y","e","r">>,
     <<"a","c","q","u","i","r","o","r">>,
     <<"i","n","v","e","s","t","o","r">>,
     <<"a","c","q","u","i","s","i","t","i","o","n">>,
     <<"p","u","r","c","h","a","s","e","r">>,
     <<"p","a","r","t","n","e","r","s">>}

COMPANY_SUFFIXES ==
    {<<"i","n","c">>,
     <<"l","l","c">>,
     <<"l","p">>,
     <<"l",".","p",".">>,
     <<"c","o","r","p">>,
     <<"c","o","r","p","o","r","a","t","i","o","n">>,
     <<"l","t","d">>,
     <<"l","i","m","i","t","e","d">>,
     <<"c","o">>,
     <<"h","o","l","d","i","n","g","s">>,
     <<"g","r","o","u","p">>,
     <<"h","o","l","d","c","o">>,
     <<"p","a","r","e","n","t">>,
     <<"t","o","p","c","o">>,
     <<"b","i","d","c","o">>,
     <<"b","u","y","e","r">>,
     <<"a","c","q","u","i","r","o","r">>,
     <<"i","n","v","e","s","t","o","r">>,
     <<"a","c","q","u","i","s","i","t","i","o","n">>,
     <<"p","u","r","c","h","a","s","e","r">>}

CONNECTOR_WORDS ==
    {<<"a","n","d">>, <<"t","h","e">>, <<"o","f">>,
     <<"d","b","a">>, <<"f","k","a">>, <<"a","k","a">>}

\* The alternatives of suffix_pattern in _extract_first_entity.
SuffixAlternatives ==
    {<<"i","n","c">>,
     <<"l","l","c">>,
     <<"l","p">>,
     <<"l",".","p",".">>,
     <<"c","o","r","p">>,
     <<"c","o","r","p","o","r","a","t","i","o","n">>,
     <<"l","t","d">>,
     <<"l","i","m","i","t","e","d">>}

(***************************************************************************)
(* The company names and raw holding names of the model.  A table row      *)
(* holds the index of its name in NamePool; Text(n) is the string.         *)
(***************************************************************************)
NamePool ==
    <<
      (*  1: Aptean, Inc. *)
      <<"A", "p", "t", "e", "a", "n", ",", " ", "I", "n", "c", ".">>,
      (*  2: Aptean Acquiror, Inc. *)
      <<"A", "p", "t", "e", "a", "n", " ", "A", "c", "q", "u", "i", "r", "o", "r", ",",
        " ", "I", "n", "c", ".">>,
      (*  3: Summit *)
      <<"S", "u", "m", "m", "i", "t">>,
      (*  4: Summit Partners *)
      <<"S", "u", "m", "m", "i", "t", " ", "P", "a", "r", "t", "n", "e", "r", "s">>,
      (*  5: Mustang Prospects Holdco, LLC *)
      <<"M", "u", "s", "t", "a", "n", "g", " ", "P", "r", "o", "s", "p", "e", "c", "t",
        "s", " ", "H", "o", "l", "d", "c", "o", ",", " ", "L", "L", "C">>,
      (*  6: Mustang Prospects Holdco, LLC, Mustang Prospects Purchaser, LLC and Mustang Topco, LP *)
      <<"M", "u", "s", "t", "a", "n", "g", " ", "P", "r", "o", "s", "p", "e", "c", "t",
        "s", " ", "H", "o", "l", "d", "c", "o", ",", " ", "L", "L", "C", ",", " ", "M",
        "u", "s", "t", "a", "n", "g", " ", "P", "r", "o", "s", "p", "e", "c", "t", "s",
        " ", "P", "u", "r", "c", "h", "a", "s", "e", "r", ",", " ", "L", "L", "C", " ",
        "a", "n", "d", " ", "M", "u", "s", "t", "a", "n", "g", " ", "T", "o", "p", "c",
        "o", ",", " ", "L", "P">>,
      (*  7: Acme Technologies *)
      <<"A", "c", "m", "e", " ", "T", "e", "c", "h", "n", "o", "l", "o", "g", "i", "e",
        "s">>,
      (*  8: Acme Technologies, Inc. *)
      <<"A", "c", "m", "e", " ", "T", "e", "c", "h", "n", "o", "l", "o", "g", "i", "e",
        "s", ",", " ", "I", "n", "c", ".">>,
      (*  9: ACME TECHNOLOGIES *)
      <<"A", "C", "M", "E", " ", "T", "E", "C", "H", "N", "O", "L", "O", "G", "I", "E",
        "S">>,
      (* 10: Technologies Acme *)
      <<"T", "e", "c", "h", "n", "o", "l", "o", "g", "i", "e", "s", " ", "A", "c", "m",
        "e">>,
      (* 11: Acme Technologies (dba Acme) *)
      <<"A", "c", "m", "e", " ", "T", "e", "c", "h", "n", "o", "l", "o", "g", "i", "e",
        "s", " ", "(", "d", "b", "a", " ", "A", "c", "m", "e", ")">>,
      (* 12: Acme Technologies LLC, Summit Partners LP *)
      <<"A", "c", "m", "e", " ", "T", "e", "c", "h", "n", "o", "l", "o", "g", "i", "e",
        "s", " ", "L", "L", "C", ",", " ", "S", "u", "m", "m", "i", "t", " ", "P", "a",
        "r", "t", "n", "e", "r", "s", " ", "L", "P">>,
      (* 13: Acme Technologies Summit *)
      <<"A", "c", "m", "e", " ", "T", "e", "c", "h", "n", "o", "l", "o", "g", "i", "e",
        "s", " ", "S", "u", "m", "m", "i", "t">>,
      (* 14: Acme and Summit *)
      <<"A", "c", "m", "e", " ", "a", "n", "d", " ", "S", "u", "m", "m", "i", "t">>,
      (* 15: A B C D E F G H I J *)
      <<"A", " ", "B", " ", "C", " ", "D", " ", "E", " ", "F", " ", "G", " ", "H", " ",
        "I", " ", "J">>,
      (* 16: A B C D E F G H I *)
      <<"A", " ", "B", " ", "C", " ", "D", " ", "E", " ", "F", " ", "G", " ", "H", " ",
        "I">>,
      (* 17: A B C D E F G H J *)
      <<"A", " ", "B", " ", "C", " ", "D", " ", "E", " ", "F", " ", "G", " ", "H", " ",
        "J">>
    >>

Text(n) == NamePool[n]

(***************************************************************************)
(* Pure helpers of the module.                                             *)
(***************************************************************************)

\* A missing cell (None in parse_bdc_filing.py, NaN once read back from CSV).
\* Company ids are UUID strings (make_uuid); the model writes them 1, 2, ...
\* so none of them is one of the null spellings "nan", "none", "".
NaN == 0

\* _is_null(value)
is_null(value) == value = NaN

\* _normalize_name(name), character by character
normalize_name_body(name) ==
    IF name = <<>> THEN <<>>
    ELSE LET text == PunctToSpace(RemoveParens(Strip(Lower(name))))
             words == Split(text)
             filtered_words ==
                 SelectSeq(words, LAMBDA word :
                     word \notin COMPANY_SUFFIXES /\ word \notin CONNECTOR_WORDS)
         IN  Join(filtered_words)

Range(s) == {s[i] : i \in 1..Len(s)}

\* _jaccard_similarity(set1, set2): the quotient intersection / union, kept as
\* the pair <<numerator, denominator>>; 0.0 is <<0, 1>>.
jaccard_similarity(set1, set2) ==
    IF set1 = {} \/ set2 = {} THEN <<0, 1>>
    ELSE <<Cardinality(set1 \cap set2), Cardinality(set1 \cup set2)>>

\* q >= n/d and q > r on such quotients (the float comparisons of the source:
\* the quotients have small denominators, so the doubles compare as the
\* rationals do, and 7/10 and 9/10 round to the literals 0.70 and 0.90).
AtLeast(q, n, d) == q[1] * d >= n * q[2]
Greater(q, r) == q[1] * r[2] > r[1] * q[2]

\* _extract_first_entity(name), character by character
extract_first_entity_body(name) ==
    IF name = <<>> THEN <<>>
    ELSE
    LET text == Strip(name)
        low == Lower(text)
        \* the comma that ends a match of suffix_pattern starting at i, if any:
        \* an alternative at i, then \s*, then ","  (re.IGNORECASE)
        CommaOf(i) ==
            {c \in 1..Len(low) :
                /\ low[c] = ","
                /\ \E a \in SuffixAlternatives :
                      /\ OccursAt(low, a, i)
                      /\ i + Len(a) <= c
                      /\ \A k \in (i + Len(a))..(c - 1) : IsSpace(low[k])}
        starts == {i \in 1..Len(low) : CommaOf(i) # {}}
        and_pos == Find(low, <<" ", "a", "n", "d", " ">>) - 1
    IN  IF starts # {}
        THEN Strip(SubSeq(text, 1, Min(CommaOf(Min(starts))) - 1))
        ELSE IF and_pos > 0 /\ Len(Strip(SubSeq(text, 1, and_pos))) >= 3
        THEN Strip(SubSeq(text, 1, and_pos))
        ELSE text

\* name_score(name) in _pick_canonical_name: (has_and, has_parens, length)
name_score_body(name) ==
    <<IF Contains(Lower(name), <<" ", "a", "n", "d", " ">>) THEN 1 ELSE 0,
      IF Contains(name, <<"(">>) THEN 1 ELSE 0,
      Len(name)>>

(***************************************************************************)
(* The string functions are pure, and every string of a run is a name of   *)
(* NamePool, its lower().strip() or its first entity: their values on      *)
(* these strings are tabulated once and looked up afterwards.  A string    *)
(* outside a table is computed.                                            *)
(***************************************************************************)
Lookup(table, name, computed) ==
    IF name \in DOMAIN table THEN table[name] ELSE computed

PoolNames == {NamePool[n] : n \in DOMAIN NamePool}

LowerTable == [s \in PoolNames |-> Lower(s)]

\* name.lower()
lower(name) == Lookup(LowerTable, name, Lower(name))

LowerStripTable == [s \in PoolNames |-> Strip(Lower(s))]

\* name.lower().strip()
lower_strip(name) == Lookup(LowerStripTable, name, Strip(Lower(name)))

FirstEntityTable == [s \in PoolNames |-> extract_first_entity_body(s)]

\* _extract_first_entity(name)
extract_first_entity(name) ==
    Lookup(FirstEntityTable, name, extract_first_entity_body(name))

KnownStrings ==
    PoolNames \cup {LowerStripTable[s] : s \in PoolNames}
              \cup {FirstEntityTable[s] : s \in PoolNames}

NormalizeTable == [s \in KnownStrings |-> normalize_name_body(s)]

\* _normalize_name(name)
normalize_name(name) == Lookup(NormalizeTable, name, normalize_name_body(name))

SplitTable == [s \in {NormalizeTable[x] : x \in KnownStrings} |-> Split(s)]

\* normalized.split()
split(normalized) == Lookup(SplitTable, normalized, Split(normalized))

\* the set of words of a normalized name
WordSet(normalized) ==
    IF normalized = <<>> THEN {} ELSE Range(split(normalized))

\* _tokenize(name)
tokenize(name) == WordSet(normalize_name(name))

NameScoreTable == [s \in PoolNames |-> name_score_body(s)]

name_score(name) == Lookup(NameScoreTable, name, name_score_body(name))

\* A faulty variant of ScoredBefore: the length is compared first.
ScoredBefore_length_first(s1, i1, s2, i2) ==
    \/ s1[3] < s2[3]
    \/ s1[3] = s2[3] /\ s1[1] < s2[1]
    \/ s1[3] = s2[3] /\ s1[1] = s2[1] /\ s1[2] < s2[2]
    \/ s1 = s2 /\ i1 < i2

\* Python's order on the tuples (score, i, n) that scored.sort() uses; the
\* index i decides every tie of the score, so n is never compared.
ScoredBefore(s1, i1, s2, i2) ==
    \/ s1[1] < s2[1]
    \/ s1[1] = s2[1] /\ s1[2] < s2[2]
    \/ s1[1] = s2[1] /\ s1[2] = s2[2] /\ s1[3] < s2[3]
    \/ s1 = s2 /\ i1 < i2

\* _pick_canonical_name(names): the index (from 1) of the canonical name, 0
\* for an empty list (the source's -1).
pick_canonical_name(names) ==
    IF names = <<>> THEN 0
    ELSE CHOOSE i \in 1..Len(names) :
            \A j \in 1..Len(names) :
                j # i => ScoredBefore(name_score(names[i]), i, name_score(names[j]), j)

(***************************************************************************)
(* Python dicts: insertion-ordered sequences of <<key, value>> pairs.      *)
(* Assigning to an existing key keeps its position and replaces its value. *)
(***************************************************************************)
DictHas(d, k) == \E i \in 1..Len(d) : d[i][1] = k

DictGet(d, k) == d[CHOOSE i \in 1..Len(d) : d[i][1] = k][2]

DictGetOr(d, k, default) == IF DictHas(d, k) THEN DictGet(d, k) ELSE default

DictSet(d, k, v) ==
    IF DictHas(d, k)
    THEN [i \in 1..Len(d) |-> IF d[i][1] = k THEN <<k, v>> ELSE d[i]]
    ELSE Append(d, <<k, v>>)

DictKeys(d) == {d[i][1] : i \in 1..Len(d)}

DictValues(d) == {d[i][2] : i \in 1..Len(d)}

(***************************************************************************)
(* The tables on disk.                                                     *)
(*   companies  data/silver/dim_company.csv: rows [company_id,             *)
(*              company_name]                                              *)
(*   holdings   data/silver/fact_reported_holding.csv: rows                *)
(*              [reported_holding_id, raw_company_name, company_id]        *)
(*   aliases    data/silver/dim_entity_alias.csv: rows [alias_id,          *)
(*              entity_type, entity_id, alias_text]                        *)
(*   log        data/gold/entity_resolution_log.csv: the rows of the file, *)
(*              resolution rows and consolidation rows alike               *)
(*   log_exists whether that file exists                                   *)
(*   last       the last run: which one, which came before it, what it    *)
(*              read, what it computed and returned (history)              *)
(*   runs       number of runs so far (history)                            *)
(***************************************************************************)
VARIABLES companies, holdings, aliases, log, log_exists, missing, last, runs

vars == <<companies, holdings, aliases, log, log_exists, missing, last, runs>>

\* the input files under silver/, and the column of the holdings file that
\* the matching loop reads with row["reported_holding_id"]
DIM_COMPANY == "dim_company.csv"
FACT_REPORTED_HOLDING == "fact_reported_holding.csv"
DIM_ENTITY_ALIAS == "dim_entity_alias.csv"
REPORTED_HOLDING_ID == "reported_holding_id"

\* A faulty variant of read_csv_raises: a missing file reads as an empty table.
read_csv_raises_never(paths) == FALSE

\* _read_csv: "if not path.exists(): raise FileNotFoundError", for the files
\* a run reads
read_csv_raises(paths) == paths \cap missing # {}

\* entity_type values, as strings
COMPANY_TYPE == <<"c", "o", "m", "p", "a", "n", "y">>
FUND_TYPE == <<"f", "u", "n", "d">>

\* match_confidence in hundredths: 1.0, 0.95, 0.90, 0.80, 0.75, 0.0
CONF_DIRECT == 100
CONF_ALIAS == 95
CONF_NORMALIZED == 90
CONF_TOKEN_OVERLAP == 80
CONF_FIRST_ENTITY == 75
CONF_UNRESOLVED == 0

(***************************************************************************)
(* resolve_entities: the lookup dictionaries built before the loop.        *)
(***************************************************************************)

\* company_name_to_id: lower().strip() of company_name -> company_id
RECURSIVE build_company_name_to_id(_, _, _)
build_company_name_to_id(rows, i, d) ==
    IF i > Len(rows) THEN d
    ELSE build_company_name_to_id(rows, i + 1,
            DictSet(d, lower_strip(Text(rows[i].company_name)), rows[i].company_id))

\* company_id_to_name: company_id -> company_name
RECURSIVE build_company_id_to_name(_, _, _)
build_company_id_to_name(rows, i, d) ==
    IF i > Len(rows) THEN d
    ELSE build_company_id_to_name(rows, i + 1,
            DictSet(d, rows[i].company_id, rows[i].company_name))

\* A faulty variant of build_alias_to_company_id: rows of every entity_type
\* are entered.
RECURSIVE build_alias_to_company_id_any_type(_, _, _)
build_alias_to_company_id_any_type(rows, i, d) ==
    IF i > Len(rows) THEN d
    ELSE build_alias_to_company_id_any_type(rows, i + 1,
            DictSet(d, lower_strip(Text(rows[i].alias_text)), rows[i].entity_id))

\* alias_to_company_id: lower().strip() of alias_text -> entity_id, for the
\* rows whose entity_type is "company"
RECURSIVE build_alias_to_company_id(_, _, _)
build_alias_to_company_id(rows, i, d) ==
    IF i > Len(rows) THEN d
    ELSE build_alias_to_company_id(rows, i + 1,
            IF lower(rows[i].entity_type) = COMPANY_TYPE
            THEN DictSet(d, lower_strip(Text(rows[i].alias_text)), rows[i].entity_id)
            ELSE d)

\* normalized_to_company_id: first writer wins, in the order of
\* company_name_to_id.items()
PutFirst(d, k, v) == IF DictHas(d, k) THEN d ELSE Append(d, <<k, v>>)

RECURSIVE build_normalized_to_company_id(_, _, _)
build_normalized_to_company_id(name_to_id, i, d) ==
    IF i > Len(name_to_id) THEN d
    ELSE build_normalized_to_company_id(name_to_id, i + 1,
            IF normalize_name(name_to_id[i][1]) # <<>>
            THEN PutFirst(d, normalize_name(name_to_id[i][1]), name_to_id[i][2])
            ELSE d)

\* company_tokens: normalized -> <<tokens, company_id>>, first writer wins
RECURSIVE build_company_tokens(_, _, _)
build_company_tokens(name_to_id, i, d) ==
    IF i > Len(name_to_id) THEN d
    ELSE build_company_tokens(name_to_id, i + 1,
            IF tokenize(name_to_id[i][1]) # {}
            THEN PutFirst(d, normalize_name(name_to_id[i][1]),
                          <<tokenize(name_to_id[i][1]), name_to_id[i][2]>>)
            ELSE d)

\* The dictionaries of one run.
RegistryOf(name_to_id, alias_rows) ==
    [company_name_to_id |-> name_to_id,
     alias_to_company_id |-> build_alias_to_company_id(alias_rows, 1, <<>>),
     normalized_to_company_id |-> build_normalized_to_company_id(name_to_id, 1, <<>>),
     company_tokens |-> build_company_tokens(name_to_id, 1, <<>>)]

Registry(company_rows, alias_rows) ==
    RegistryOf(build_company_name_to_id(company_rows, 1, <<>>), alias_rows)

(***************************************************************************)
(* resolve_entities: the five strategies, each as the lookup it performs   *)
(* (NaN when it finds nothing), and the cascade of the loop body.          *)
(***************************************************************************)
direct_match(reg, raw_name) ==
    DictGetOr(reg.company_name_to_id, lower_strip(raw_name), NaN)

alias_match(reg, raw_name) ==
    DictGetOr(reg.alias_to_company_id, lower_strip(raw_name), NaN)

NormalizedLookup(reg, normalized) ==
    IF normalized # <<>>
    THEN DictGetOr(reg.normalized_to_company_id, normalized, NaN)
    ELSE NaN

normalized_match(reg, raw_name) == NormalizedLookup(reg, normalize_name(raw_name))

\* A faulty variant of best_token_match: ">=" for ">", so the last of
\* several equally similar entries wins.
RECURSIVE best_token_match_last_wins(_, _, _, _, _)
best_token_match_last_wins(company_tokens, raw_tokens, i, best_match, best_similarity) ==
    IF i > Len(company_tokens) THEN best_match
    ELSE IF /\ AtLeast(jaccard_similarity(raw_tokens, company_tokens[i][2][1]), 70, 100)
            /\ ~Greater(best_similarity,
                        jaccard_similarity(raw_tokens, company_tokens[i][2][1]))
    THEN best_token_match_last_wins(company_tokens, raw_tokens, i + 1,
                                    company_tokens[i][2][2],
                                    jaccard_similarity(raw_tokens, company_tokens[i][2][1]))
    ELSE best_token_match_last_wins(company_tokens, raw_tokens, i + 1, best_match,
                                    best_similarity)

\* the loop over company_tokens.items(): best_match[0] after entry i
RECURSIVE best_token_match(_, _, _, _, _)
best_token_match(company_tokens, raw_tokens, i, best_match, best_similarity) ==
    IF i > Len(company_tokens) THEN best_match
    ELSE IF /\ AtLeast(jaccard_similarity(raw_tokens, company_tokens[i][2][1]), 70, 100)
            /\ Greater(jaccard_similarity(raw_tokens, company_tokens[i][2][1]),
                       best_similarity)
    THEN best_token_match(company_tokens, raw_tokens, i + 1, company_tokens[i][2][2],
                          jaccard_similarity(raw_tokens, company_tokens[i][2][1]))
    ELSE best_token_match(company_tokens, raw_tokens, i + 1, best_match, best_similarity)

\* A faulty variant of TokenLookup: names of two tokens are not compared.
TokenLookup_three_tokens(reg, raw_tokens) ==
    IF raw_tokens # {} /\ Cardinality(raw_tokens) >= 3
    THEN best_token_match(reg.company_tokens, raw_tokens, 1, NaN, <<0, 1>>)
    ELSE NaN

TokenLookup(reg, raw_tokens) ==
    IF raw_tokens # {} /\ Cardinality(raw_tokens) >= 2
    THEN best_token_match(reg.company_tokens, raw_tokens, 1, NaN, <<0, 1>>)
    ELSE NaN

token_overlap_match(reg, raw_name) == TokenLookup(reg, tokenize(raw_name))

FirstEntityLookup(reg, raw_name_lower, first_entity) ==
    IF first_entity # <<>> /\ lower(first_entity) # raw_name_lower
    THEN NormalizedLookup(reg, normalize_name(first_entity))
    ELSE NaN

first_entity_match(reg, raw_name) ==
    FirstEntityLookup(reg, lower_strip(raw_name), extract_first_entity(raw_name))

Outcome(id, method, confidence) ==
    [matched_company_id |-> id, match_method |-> method, match_confidence |-> confidence]

\* A faulty variant of cascade: a first-entity match is reported with the
\* confidence of a token-overlap match.
cascade_confidence_mixup(direct, alias, normalized, token_overlap, first_entity) ==
    IF direct # NaN THEN Outcome(direct, "direct", CONF_DIRECT)
    ELSE IF alias # NaN THEN Outcome(alias, "alias", CONF_ALIAS)
    ELSE IF normalized # NaN THEN Outcome(normalized, "normalized", CONF_NORMALIZED)
    ELSE IF token_overlap # NaN
    THEN Outcome(token_overlap, "token_overlap", CONF_TOKEN_OVERLAP)
    ELSE IF first_entity # NaN
    THEN Outcome(first_entity, "first_entity", CONF_TOKEN_OVERLAP)
    ELSE Outcome(NaN, "unresolved", CONF_UNRESOLVED)

\* A faulty variant of cascade: the alias lookup comes before the direct one.
cascade_alias_first(direct, alias, normalized, token_overlap, first_entity) ==
    IF alias # NaN THEN Outcome(alias, "alias", CONF_ALIAS)
    ELSE IF direct # NaN THEN Outcome(direct, "direct", CONF_DIRECT)
    ELSE IF normalized # NaN THEN Outcome(normalized, "normalized", CONF_NORMALIZED)
    ELSE IF token_overlap # NaN
    THEN Outcome(token_overlap, "token_overlap", CONF_TOKEN_OVERLAP)
    ELSE IF first_entity # NaN
    THEN Outcome(first_entity, "first_entity", CONF_FIRST_ENTITY)
    ELSE Outcome(NaN, "unresolved", CONF_UNRESOLVED)

\* The body of the loop for one unresolved holding, given what each strategy
\* finds: if / elif / else, then the two "if matched_company_id is None" blocks.
cascade(direct, alias, normalized, token_overlap, first_entity) ==
    IF direct # NaN THEN Outcome(direct, "direct", CONF_DIRECT)
    ELSE IF alias # NaN THEN Outcome(alias, "alias", CONF_ALIAS)
    ELSE IF normalized # NaN THEN Outcome(normalized, "normalized", CONF_NORMALIZED)
    ELSE IF token_overlap # NaN
    THEN Outcome(token_overlap, "token_overlap", CONF_TOKEN_OVERLAP)
    ELSE IF first_entity # NaN
    THEN Outcome(first_entity, "first_entity", CONF_FIRST_ENTITY)
    ELSE Outcome(NaN, "unresolved", CONF_UNRESOLVED)

resolve_one(reg, raw_name) ==
    cascade(direct_match(reg, raw_name), alias_match(reg, raw_name),
            normalized_match(reg, raw_name), token_overlap_match(reg, raw_name),
            first_entity_match(reg, raw_name))

(***************************************************************************)
(* consolidate_company_duplicates_safe: the three grouping stages.  Their  *)
(* shared state st is [consolidation_groups, skipped, already_grouped,     *)
(* processed_token]; a  *)
(* group is [canonical_id, duplicate_ids, method, reason], a skipped entry *)
(* <<what, method, reason>>; a group's reason is <<template, text>>, a     *)
(* skipped entry's reason the template of its message.                     *)
(***************************************************************************)
Group(canonical_id, duplicate_ids, method, reason) ==
    [canonical_id |-> canonical_id, duplicate_ids |-> duplicate_ids,
     method |-> method, reason |-> reason]

\* A faulty variant of AddGroup: already_grouped is not updated.
AddGroup_ungrouped(st, g) ==
    [st EXCEPT !.consolidation_groups = Append(@, g)]

AddGroup(st, g) ==
    [st EXCEPT !.consolidation_groups = Append(@, g),
               !.already_grouped = @ \cup {g.canonical_id} \cup Range(g.duplicate_ids)]

AddSkipped(st, what, method, reason) ==
    [st EXCEPT !.skipped = Append(@, <<what, method, reason>>)]

\* normalized_groups: normalized -> [(company_id, original_name)]
group_under(d, normalized, member) ==
    IF normalized = <<>> THEN d
    ELSE DictSet(d, normalized, Append(DictGetOr(d, normalized, <<>>), member))

RECURSIVE build_normalized_groups(_, _, _)
build_normalized_groups(id_to_name, i, d) ==
    IF i > Len(id_to_name) THEN d
    ELSE build_normalized_groups(id_to_name, i + 1,
            group_under(d, normalize_name(Text(id_to_name[i][2])), id_to_name[i]))

\* canonical and duplicates of an accepted group of (company_id, name) members
MemberNames(members) == [k \in 1..Len(members) |-> Text(members[k][2])]

MemberIds(members) == [k \in 1..Len(members) |-> members[k][1]]

GroupAround(canonical_id, ids, method, reason) ==
    Group(canonical_id, SelectSeq(ids, LAMBDA cid : cid # canonical_id), method, reason)

PickGroup(members, method, reason) ==
    GroupAround(members[pick_canonical_name(MemberNames(members))][1],
                MemberIds(members), method, reason)

\* first_words of the members of a normalized group
FirstWords(members) ==
    {split(normalize_name(Text(m[2])))[1] :
        m \in {x \in Range(members) : normalize_name(Text(x[2])) # <<>>}}

\* A faulty variant of normalized_step: a group that fails a safety check is
\* dropped without an entry in skipped.
normalized_step_silent(st, normalized, members) ==
    IF Len(members) <= 1 THEN st
    ELSE IF Len(split(normalized)) < 2 THEN st
    ELSE IF Cardinality(FirstWords(members)) > 1 THEN st
    ELSE AddGroup(st, PickGroup(members, "normalized", <<"normalized=", normalized>>))

\* A faulty variant of normalized_step: no safety checks.
normalized_step_unchecked(st, normalized, members) ==
    IF Len(members) <= 1 THEN st
    ELSE AddGroup(st, PickGroup(members, "normalized", <<"normalized=", normalized>>))

\* 1. NORMALIZED DUPLICATES: the body of the loop over normalized_groups.items()
normalized_step(st, normalized, members) ==
    IF Len(members) <= 1 THEN st
    ELSE IF Len(split(normalized)) < 2
    THEN AddSkipped(st, normalized, "normalized", "single-word match too generic")
    ELSE IF Cardinality(FirstWords(members)) > 1
    THEN AddSkipped(st, normalized, "normalized", "variants have different first words")
    ELSE AddGroup(st, PickGroup(members, "normalized", <<"normalized=", normalized>>))

RECURSIVE normalized_stage(_, _, _)
normalized_stage(groups, i, st) ==
    IF i > Len(groups) THEN st
    ELSE normalized_stage(groups, i + 1, normalized_step(st, groups[i][1], groups[i][2]))

\* token_data: (company_id, name, tokens) of the companies not grouped so far
\* that have at least two tokens
token_row(token_data, row, tokens, already_grouped) ==
    IF row[1] \notin already_grouped /\ tokens # {} /\ Cardinality(tokens) >= 2
    THEN Append(token_data, <<row[1], row[2], tokens>>)
    ELSE token_data

RECURSIVE build_token_data(_, _, _, _)
build_token_data(id_to_name, i, already_grouped, token_data) ==
    IF i > Len(id_to_name) THEN token_data
    ELSE build_token_data(id_to_name, i + 1, already_grouped,
            token_row(token_data, id_to_name[i],
                      WordSet(normalize_name(Text(id_to_name[i][2]))), already_grouped))

\* the body of the inner loop over token_data[i+1:]; acc is
\* [similar_group, processed_token, skipped]
token_pair(acc, name1, cid2, name2, similarity) ==
    IF cid2 \in acc.processed_token THEN acc
    ELSE IF AtLeast(similarity, 90, 100)
    THEN [acc EXCEPT !.similar_group = Append(@, <<cid2, name2>>),
                     !.processed_token = @ \cup {cid2}]
    ELSE IF AtLeast(similarity, 70, 100)
    THEN [acc EXCEPT !.skipped = Append(@,
            <<Text(name1) \o <<" ", "<", "-", ">", " ">> \o Text(name2),
              "token_overlap", "Jaccard < 0.90 threshold">>)]
    ELSE acc

RECURSIVE token_inner(_, _, _, _)
token_inner(token_data, i, j, acc) ==
    IF j > Len(token_data) THEN acc
    ELSE token_inner(token_data, i, j + 1,
            token_pair(acc, token_data[i][2], token_data[j][1], token_data[j][2],
                       jaccard_similarity(token_data[i][3], token_data[j][3])))

\* after the inner loop: the group, if any, then processed_token.add(cid1)
token_close(st, cid1, similar_group) ==
    [(IF Len(similar_group) > 1
      THEN AddGroup(st, PickGroup(similar_group, "token_overlap",
                                  <<"Jaccard >= 0.90", <<>>>>))
      ELSE st) EXCEPT !.processed_token = @ \cup {cid1}]

token_outer(st, cid1, acc) ==
    token_close([st EXCEPT !.skipped = acc.skipped,
                           !.processed_token = acc.processed_token],
                cid1, acc.similar_group)

\* 2. TOKEN OVERLAP: the body of the outer loop over token_data
token_step(token_data, i, st) ==
    IF token_data[i][1] \in st.processed_token THEN st
    ELSE token_outer(st, token_data[i][1],
            token_inner(token_data, i, i + 1,
                [similar_group |-> <<<<token_data[i][1], token_data[i][2]>>>>,
                 processed_token |-> st.processed_token,
                 skipped |-> st.skipped]))

RECURSIVE token_stage(_, _, _)
token_stage(token_data, i, st) ==
    IF i > Len(token_data) THEN st
    ELSE token_stage(token_data, i + 1, token_step(token_data, i, st))

token_overlap_pass(id_to_name, st) ==
    token_stage(build_token_data(id_to_name, 1, st.already_grouped, <<>>), 1, st)

\* 3. FIRST ENTITY MATCHES: the inner search "for other_id, other_name in
\* company_id_to_name.items()"; the positions that would match
matching_others(id_to_name, company_id, already_grouped, first_normalized) ==
    {k \in 1..Len(id_to_name) :
        /\ id_to_name[k][1] # company_id
        /\ id_to_name[k][1] \notin already_grouped
        /\ normalize_name(Text(id_to_name[k][2])) = first_normalized}

first_entity_group(company_id, other_id, canonical_idx, first_entity) ==
    IF canonical_idx = 1
    THEN Group(company_id, <<other_id>>, "first_entity", <<"first entity=", first_entity>>)
    ELSE Group(other_id, <<company_id>>, "first_entity", <<"first entity=", first_entity>>)

\* the first match ends the search (break)
first_entity_found(st, company_id, company_name, first_entity, other) ==
    AddGroup(st, first_entity_group(company_id, other[1],
                    pick_canonical_name(<<company_name, Text(other[2])>>), first_entity))

first_entity_search(st, id_to_name, company_id, company_name, first_entity, found) ==
    IF found = {} THEN st
    ELSE first_entity_found(st, company_id, company_name, first_entity,
                            id_to_name[Min(found)])

\* A faulty variant of first_entity_check: a first entity of one word is
\* looked up like any other.
first_entity_check_unchecked(st, id_to_name, company_id, company_name, first_entity, first_normalized) ==
    IF first_normalized = <<>> THEN st
    ELSE first_entity_search(st, id_to_name, company_id, company_name, first_entity,
            matching_others(id_to_name, company_id, st.already_grouped, first_normalized))

first_entity_check(st, id_to_name, company_id, company_name, first_entity, first_normalized) ==
    IF first_normalized = <<>> THEN st
    ELSE IF Len(split(first_normalized)) < 2
    THEN AddSkipped(st, company_name, "first_entity", "first entity has <2 words")
    ELSE first_entity_search(st, id_to_name, company_id, company_name, first_entity,
            matching_others(id_to_name, company_id, st.already_grouped, first_normalized))

first_entity_of(st, id_to_name, company_id, company_name, first_entity) ==
    IF lower(first_entity) = lower(company_name) THEN st
    ELSE first_entity_check(st, id_to_name, company_id, company_name, first_entity,
                            normalize_name(first_entity))

\* the body of the loop over company_id_to_name.items()
first_entity_step(st, id_to_name, company_id, company_name) ==
    IF company_id \in st.already_grouped THEN st
    ELSE first_entity_of(st, id_to_name, company_id, company_name,
                         extract_first_entity(company_name))

RECURSIVE first_entity_stage(_, _, _)
first_entity_stage(id_to_name, i, st) ==
    IF i > Len(id_to_name) THEN st
    ELSE first_entity_stage(id_to_name, i + 1,
            first_entity_step(st, id_to_name, id_to_name[i][1], Text(id_to_name[i][2])))

\* consolidation_groups and skipped for a company table: the three stages
EmptyPlan ==
    [consolidation_groups |-> <<>>, skipped |-> <<>>, already_grouped |-> {},
     processed_token |-> {}]

plan_from(id_to_name) ==
    first_entity_stage(id_to_name, 1,
        token_overlap_pass(id_to_name,
            normalized_stage(build_normalized_groups(id_to_name, 1, <<>>), 1, EmptyPlan)))

consolidation_plan(company_rows) ==
    plan_from(build_company_id_to_name(company_rows, 1, <<>>))

\* The (canonical_id, dup_id) pairs in the order of the two nested loops
\* "for ... in consolidation_groups: for dup_id in duplicate_ids".
RECURSIVE group_pairs(_, _)
group_pairs(groups, i) ==
    IF i > Len(groups) THEN <<>>
    ELSE [k \in 1..Len(groups[i].duplicate_ids) |->
             [canonical_id |-> groups[i].canonical_id,
              dup_id |-> groups[i].duplicate_ids[k],
              method |-> groups[i].method,
              reason |-> groups[i].reason]]
         \o group_pairs(groups, i + 1)

\* A faulty variant of build_consolidation_map: the canonical id is entered
\* as well, pointing at the duplicate.
RECURSIVE build_consolidation_map_both_ways(_, _, _)
build_consolidation_map_both_ways(pairs, i, d) ==
    IF i > Len(pairs) THEN d
    ELSE build_consolidation_map_both_ways(pairs, i + 1,
            DictSet(DictSet(d, pairs[i].dup_id, pairs[i].canonical_id),
                    pairs[i].canonical_id, pairs[i].dup_id))

\* consolidation_map: old_id -> canonical_id
RECURSIVE build_consolidation_map(_, _, _)
build_consolidation_map(pairs, i, d) ==
    IF i > Len(pairs) THEN d
    ELSE build_consolidation_map(pairs, i + 1,
            DictSet(d, pairs[i].dup_id, pairs[i].canonical_id))

(***************************************************************************)
(* Bounds of the model and the names its tables draw from.                 *)
(***************************************************************************)
MaxCompanies == 4
MaxHoldings == 2
MaxRuns == 2

\* The names dim_company draws from, the raw names of unresolved holdings (in
\* the order Init enumerates them) and the alias text of the upstream alias row.
CompanyNames == {5, 6, 7, 8, 10, 12}
HoldingNames == <<9, 15, 12, 13, 6>>
AliasNames == {9}

\* Further company tables, each the first MaxCompanies names of one of these
\* lists: the Aptean and the Summit pair, three names of nine and ten words,
\* a name with a dba note beside a name of two entities, two names that
\* differ in case only beside a name whose first entity is one word.
ExampleOrders ==
    {<<1, 2, 3, 4, 5, 7, 8>>,
     <<15, 16, 17, 5, 7, 8, 10>>,
     <<16, 17, 5, 7, 8, 10, 15>>,
     <<11, 12, 3, 4, 1, 2, 5>>,
     <<7, 9, 14, 3, 5, 1, 2>>}

(***************************************************************************)
(* The two runs.                                                           *)
(***************************************************************************)

\* resolution_log: one entry per holding whose company_id is null, in row order
resolution_entry(row, out) ==
    [reported_holding_id |-> row.reported_holding_id,
     raw_company_name |-> row.raw_company_name,
     matched_company_id |-> out.matched_company_id,
     match_method |-> out.match_method,
     match_confidence |-> out.match_confidence]

\* A faulty variant of resolution_entries: no "continue" for the rows that
\* already carry a company_id.
RECURSIVE resolution_entries_unskipped(_, _, _, _)
resolution_entries_unskipped(reg, rows, i, resolution_log) ==
    IF i > Len(rows) THEN resolution_log
    ELSE resolution_entries_unskipped(reg, rows, i + 1,
            Append(resolution_log,
                   resolution_entry(rows[i],
                       resolve_one(reg, Text(rows[i].raw_company_name)))))

\* A faulty variant of resolution_entries: a matched raw name is added to
\* alias_to_company_id during the pass.
RECURSIVE resolution_entries_learning(_, _, _, _)
resolution_entries_learning(reg, rows, i, resolution_log) ==
    IF i > Len(rows) THEN resolution_log
    ELSE IF ~is_null(rows[i].company_id)
    THEN resolution_entries_learning(reg, rows, i + 1, resolution_log)
    ELSE resolution_entries_learning(
            IF resolve_one(reg, Text(rows[i].raw_company_name)).matched_company_id # NaN
            THEN [reg EXCEPT !.alias_to_company_id =
                     DictSet(@, lower_strip(Text(rows[i].raw_company_name)),
                             resolve_one(reg, Text(rows[i].raw_company_name)).matched_company_id)]
            ELSE reg,
            rows, i + 1,
            Append(resolution_log,
                   resolution_entry(rows[i],
                       resolve_one(reg, Text(rows[i].raw_company_name)))))

\* A faulty variant of resolution_entries: only a match is logged.
RECURSIVE resolution_entries_matched_only(_, _, _, _)
resolution_entries_matched_only(reg, rows, i, resolution_log) ==
    IF i > Len(rows) THEN resolution_log
    ELSE resolution_entries_matched_only(reg, rows, i + 1,
            IF /\ is_null(rows[i].company_id)
               /\ resolve_one(reg, Text(rows[i].raw_company_name)).matched_company_id # NaN
            THEN Append(resolution_log,
                        resolution_entry(rows[i],
                            resolve_one(reg, Text(rows[i].raw_company_name))))
            ELSE resolution_log)

RECURSIVE resolution_entries(_, _, _, _)
resolution_entries(reg, rows, i, resolution_log) ==
    IF i > Len(rows) THEN resolution_log
    ELSE resolution_entries(reg, rows, i + 1,
            IF is_null(rows[i].company_id)
            THEN Append(resolution_log,
                        resolution_entry(rows[i],
                            resolve_one(reg, Text(rows[i].raw_company_name))))
            ELSE resolution_log)

\* holdings after the loop: rows with a company_id are skipped, the others get
\* holdings.at[idx, "company_id"] = matched_company_id when there is a match
resolved_row(row, out) ==
    IF out.matched_company_id # NaN
    THEN [row EXCEPT !.company_id = out.matched_company_id]
    ELSE row

\* A faulty variant of resolved_holdings: every row is resolved again, also
\* the rows that already carry a company_id.
resolved_holdings_overwriting(reg, rows) ==
    [i \in 1..Len(rows) |->
        resolved_row(rows[i], resolve_one(reg, Text(rows[i].raw_company_name)))]

resolved_holdings(reg, rows) ==
    [i \in 1..Len(rows) |->
        IF is_null(rows[i].company_id)
        THEN resolved_row(rows[i], resolve_one(reg, Text(rows[i].raw_company_name)))
        ELSE rows[i]]

\* the two files resolve_entities writes: the holdings, and the resolution log,
\* which replaces the file
resolve_writes(reg) ==
    /\ holdings' = resolved_holdings(reg, holdings)
    /\ log' = resolution_entries(reg, holdings, 1, <<>>)
    /\ log_exists' = TRUE

\* a run that ends with an exception before its first write
raises(what) ==
    /\ last' = [op |-> what, op_before |-> last.op,
                holdings_before |-> holdings, aliases_before |-> aliases,
                log_before |-> log, updated_before |-> last.holdings_updated,
                consolidation_groups |-> <<>>, consolidation_map |-> <<>>,
                skipped |-> <<>>, holdings_updated |-> 0, raised |-> TRUE]
    /\ UNCHANGED <<holdings, aliases, log, log_exists>>

\* row["reported_holding_id"], the first statement of the loop body, raises
\* KeyError for the first row when the holdings file has no such column
loop_raises == REPORTED_HOLDING_ID \in missing /\ holdings # <<>>

resolve_entities ==
    /\ runs < MaxRuns
    /\ IF read_csv_raises({FACT_REPORTED_HOLDING, DIM_COMPANY, DIM_ENTITY_ALIAS})
       THEN raises("resolve_aborted")
       ELSE IF loop_raises
       THEN raises("resolve_failed")
       ELSE /\ resolve_writes(Registry(companies, aliases))
            /\ last' = [op |-> "resolve", op_before |-> last.op,
                        holdings_before |-> holdings, aliases_before |-> aliases,
                        log_before |-> log, updated_before |-> last.holdings_updated,
                        consolidation_groups |-> <<>>, consolidation_map |-> <<>>,
                        skipped |-> <<>>, holdings_updated |-> 0, raised |-> FALSE]
            /\ UNCHANGED aliases
    /\ runs' = runs + 1
    /\ UNCHANGED <<companies, missing>>

\* A faulty variant of remapped_holdings: the loop stops after the first row
\* it rewrites.
remapped_holdings_first_only(consolidation_map, rows) ==
    [i \in 1..Len(rows) |->
        IF /\ ~is_null(rows[i].company_id)
           /\ DictHas(consolidation_map, rows[i].company_id)
           /\ \A j \in 1..(i - 1) :
                 is_null(rows[j].company_id)
                     \/ ~DictHas(consolidation_map, rows[j].company_id)
        THEN [rows[i] EXCEPT !.company_id = DictGet(consolidation_map, rows[i].company_id)]
        ELSE rows[i]]

\* holdings after the remap loop
remapped_holdings(consolidation_map, rows) ==
    [i \in 1..Len(rows) |->
        IF ~is_null(rows[i].company_id) /\ DictHas(consolidation_map, rows[i].company_id)
        THEN [rows[i] EXCEPT !.company_id = DictGet(consolidation_map, rows[i].company_id)]
        ELSE rows[i]]

\* holdings_updated: the rows the remap loop assigns
count_updated(consolidation_map, rows) ==
    Cardinality({i \in 1..Len(rows) :
        ~is_null(rows[i].company_id) /\ DictHas(consolidation_map, rows[i].company_id)})

\* existing_aliases: alias_text.str.lower() of every alias row
existing_alias_texts(alias_rows) ==
    {lower(Text(alias_rows[i].alias_text)) : i \in 1..Len(alias_rows)}

\* max_alias_id: the largest n among alias ids of the form alias_n
alias_numbers(alias_rows) ==
    {alias_rows[i].alias_id[2] :
        i \in {k \in 1..Len(alias_rows) : alias_rows[k].alias_id[1] = "alias"}}

max_alias_number(alias_rows) ==
    IF alias_numbers(alias_rows) = {} THEN 0 ELSE Max(alias_numbers(alias_rows))

\* new_aliases: the loop over the (canonical_id, dup_id) pairs
new_alias(max_alias_id, canonical_id, dup_name) ==
    [alias_id |-> <<"alias", max_alias_id>>, entity_type |-> COMPANY_TYPE,
     entity_id |-> canonical_id, alias_text |-> dup_name]

\* A faulty variant of build_new_aliases: no look at existing_aliases.
RECURSIVE build_new_aliases_unchecked(_, _, _, _, _, _)
build_new_aliases_unchecked(pairs, i, id_to_name, existing, max_alias_id, new_aliases) ==
    IF i > Len(pairs) THEN new_aliases
    ELSE build_new_aliases_unchecked(pairs, i + 1, id_to_name, existing,
            max_alias_id + 1,
            Append(new_aliases,
                   new_alias(max_alias_id + 1, pairs[i].canonical_id,
                             DictGet(id_to_name, pairs[i].dup_id))))

RECURSIVE build_new_aliases(_, _, _, _, _, _)
build_new_aliases(pairs, i, id_to_name, existing_aliases, max_alias_id, new_aliases) ==
    IF i > Len(pairs) THEN new_aliases
    ELSE IF lower(Text(DictGet(id_to_name, pairs[i].dup_id))) \notin existing_aliases
    THEN build_new_aliases(pairs, i + 1, id_to_name,
            existing_aliases \cup {lower(Text(DictGet(id_to_name, pairs[i].dup_id)))},
            max_alias_id + 1,
            Append(new_aliases,
                   new_alias(max_alias_id + 1, pairs[i].canonical_id,
                             DictGet(id_to_name, pairs[i].dup_id))))
    ELSE build_new_aliases(pairs, i + 1, id_to_name, existing_aliases, max_alias_id,
                           new_aliases)

\* log_entries of a consolidation run
consolidation_entries(pairs, id_to_name, timestamp) ==
    [k \in 1..Len(pairs) |->
        [timestamp |-> timestamp,
         action |-> "company_consolidation",
         canonical_company_id |-> pairs[k].canonical_id,
         canonical_company_name |-> DictGet(id_to_name, pairs[k].canonical_id),
         duplicate_company_id |-> pairs[k].dup_id,
         duplicate_company_name |-> DictGet(id_to_name, pairs[k].dup_id),
         method |-> pairs[k].method,
         reason |-> pairs[k].reason]]

\* pd.read_csv of a log file that resolve_entities wrote with no rows (a file
\* without a header line) raises EmptyDataError
read_log_raises(log_entries) == log_entries # <<>> /\ log_exists /\ log = <<>>

\* A faulty variant of consolidate_apply: the alias file is written with the
\* new rows only.
consolidate_apply_rewriting(plan, consolidation_map, new_aliases, log_entries) ==
    /\ holdings' = remapped_holdings(consolidation_map, holdings)
    /\ aliases' = IF new_aliases # <<>> THEN new_aliases ELSE aliases
    /\ missing' = IF new_aliases # <<>> THEN missing \ {DIM_ENTITY_ALIAS} ELSE missing
    /\ log' = IF log_entries # <<>> /\ ~read_log_raises(log_entries)
              THEN log \o log_entries
              ELSE log
    /\ log_exists' = (log_exists \/ log_entries # <<>>)
    /\ last' = [op |-> "consolidate", op_before |-> last.op,
                holdings_before |-> holdings, aliases_before |-> aliases,
                log_before |-> log, updated_before |-> last.holdings_updated,
                consolidation_groups |-> plan.consolidation_groups,
                consolidation_map |-> consolidation_map, skipped |-> plan.skipped,
                holdings_updated |-> count_updated(consolidation_map, holdings),
                raised |-> read_log_raises(log_entries)]

\* the files consolidate_company_duplicates_safe writes, in order: the
\* holdings, the aliases when there are new ones, the log when there are
\* entries (the existing rows followed by the new ones)
consolidate_apply(plan, consolidation_map, new_aliases, log_entries) ==
    /\ holdings' = remapped_holdings(consolidation_map, holdings)
    /\ aliases' = aliases \o new_aliases
    /\ missing' = IF new_aliases # <<>> THEN missing \ {DIM_ENTITY_ALIAS} ELSE missing
    /\ log' = IF log_entries # <<>> /\ ~read_log_raises(log_entries)
              THEN log \o log_entries
              ELSE log
    /\ log_exists' = (log_exists \/ log_entries # <<>>)
    /\ last' = [op |-> "consolidate", op_before |-> last.op,
                holdings_before |-> holdings, aliases_before |-> aliases,
                log_before |-> log, updated_before |-> last.holdings_updated,
                consolidation_groups |-> plan.consolidation_groups,
                consolidation_map |-> consolidation_map, skipped |-> plan.skipped,
                holdings_updated |-> count_updated(consolidation_map, holdings),
                raised |-> read_log_raises(log_entries)]

consolidate_pairs(id_to_name, plan, pairs) ==
    consolidate_apply(plan,
        build_consolidation_map(pairs, 1, <<>>),
        build_new_aliases(pairs, 1, id_to_name, existing_alias_texts(aliases),
                          max_alias_number(aliases), <<>>),
        consolidation_entries(pairs, id_to_name, runs + 1))

consolidate_writes(id_to_name, plan) ==
    consolidate_pairs(id_to_name, plan, group_pairs(plan.consolidation_groups, 1))

consolidate_company_duplicates_safe ==
    /\ runs < MaxRuns
    /\ IF read_csv_raises({DIM_COMPANY, FACT_REPORTED_HOLDING})
       THEN raises("consolidate_aborted") /\ UNCHANGED missing
       ELSE consolidate_writes(build_company_id_to_name(companies, 1, <<>>),
                               consolidation_plan(companies))
    /\ runs' = runs + 1
    /\ UNCHANGED companies

(***************************************************************************)
(* Initial tables.  dim_company holds MaxCompanies rows with distinct      *)
(* names, in rising or falling order of NamePool, or is one of the example *)
(* tables.  fact_reported_holding                                          *)
(* holds MaxHoldings rows; a row is unresolved (parse_bdc_filing.py writes *)
(* company_id None) or carries the id of a company together with that      *)
(* company's name (synthetic/generate.py).  Rows are handled one by one    *)
(* and independently, so Init lists them in one order only.                *)
(* dim_entity_alias holds at most one upstream row, the alias of a company *)
(* of the table (synthetic/generate.py) or of a fund, whose id is no        *)
(* company's.  No log file exists.                                         *)
(***************************************************************************)
CompanyTables ==
    {t \in [1..MaxCompanies -> CompanyNames] :
        \/ \A i, j \in 1..MaxCompanies : i < j => t[i] < t[j]
        \/ \A i, j \in 1..MaxCompanies : i < j => t[i] > t[j]}
    \cup {SubSeq(order, 1, MaxCompanies) : order \in ExampleOrders}

HoldingRow(i, n, c) ==
    [reported_holding_id |-> i, raw_company_name |-> n, company_id |-> c]

\* choice k of a holding row: the k-th raw name, unresolved, or the company
\* of row k - Len(HoldingNames) with its name
HoldingChoice(t, i, k) ==
    IF k <= Len(HoldingNames)
    THEN HoldingRow(i, HoldingNames[k], NaN)
    ELSE HoldingRow(i, t[k - Len(HoldingNames)], k - Len(HoldingNames))

HoldingChoices ==
    {ch \in [1..MaxHoldings -> 1..(Len(HoldingNames) + MaxCompanies)] :
        \A i, j \in 1..MaxHoldings : i < j => ch[i] <= ch[j]}

AliasTables ==
    {<<>>} \cup
    {<<[alias_id |-> <<"uuid", 1>>, entity_type |-> ty,
        entity_id |-> IF ty = COMPANY_TYPE THEN 2 ELSE MaxCompanies + 1,
        alias_text |-> n]>> :
        ty \in {COMPANY_TYPE, FUND_TYPE}, n \in AliasNames}

\* the inputs that may be absent at the start; an absent input is tried with
\* one company table and with unresolved holdings
MissingChoices ==
    {{}, {DIM_COMPANY}, {FACT_REPORTED_HOLDING}, {DIM_ENTITY_ALIAS},
     {REPORTED_HOLDING_ID}, {DIM_COMPANY, FACT_REPORTED_HOLDING}}

MissingTables == {SubSeq(<<1, 2, 3, 4, 5, 7, 8>>, 1, MaxCompanies)}

Init ==
    /\ missing \in MissingChoices
    /\ \E t \in CompanyTables, ch \in HoldingChoices :
          /\ missing # {} =>
                /\ t \in MissingTables
                /\ \A i \in 1..MaxHoldings : ch[i] <= Len(HoldingNames)
          /\ companies = IF DIM_COMPANY \in missing THEN <<>>
                         ELSE [i \in 1..MaxCompanies |->
                                 [company_id |-> i, company_name |-> t[i]]]
          /\ holdings = IF FACT_REPORTED_HOLDING \in missing THEN <<>>
                        ELSE [i \in 1..MaxHoldings |-> HoldingChoice(t, i, ch[i])]
    /\ aliases \in AliasTables
    /\ DIM_ENTITY_ALIAS \in missing => aliases = <<>>
    /\ log = <<>>
    /\ log_exists = FALSE
    /\ last = [op |-> "none", op_before |-> "none",
               holdings_before |-> <<>>, aliases_before |-> <<>>,
               log_before |-> <<>>, updated_before |-> 0,
               consolidation_groups |-> <<>>, consolidation_map |-> <<>>,
               skipped |-> <<>>, holdings_updated |-> 0, raised |-> FALSE]
    /\ runs = 0

Next ==
    \/ resolve_entities
    \/ consolidate_company_duplicates_safe

Spec == Init /\ [][Next]_vars

(***************************************************************************)
(* consolidate_company_duplicates, the deprecated consolidation that the   *)
(* command line runs for --consolidate-unsafe with dry_run=False.  Its     *)
(* consolidation_map is a dictionary old company_id -> canonical           *)
(* company_id; sorted() orders the ids as the integers standing for them.  *)
(***************************************************************************)

\* "for cid in company_ids_sorted[1:]: consolidation_map[cid] = canonical";
\* the token stage enters a cid only "if cid not in consolidation_map"
RECURSIVE unsafe_map_group(_, _, _, _)
unsafe_map_group(consolidation_map, ids_sorted, k, only_new) ==
    IF k > Len(ids_sorted) THEN consolidation_map
    ELSE unsafe_map_group(
            IF only_new /\ DictHas(consolidation_map, ids_sorted[k])
            THEN consolidation_map
            ELSE DictSet(consolidation_map, ids_sorted[k], ids_sorted[1]),
            ids_sorted, k + 1, only_new)

\* 1. Group by normalized name: the loop over normalized_groups.items()
RECURSIVE unsafe_normalized_stage(_, _, _)
unsafe_normalized_stage(normalized_groups, i, consolidation_map) ==
    IF i > Len(normalized_groups) THEN consolidation_map
    ELSE unsafe_normalized_stage(normalized_groups, i + 1,
            IF Len(normalized_groups[i][2]) > 1
            THEN unsafe_map_group(consolidation_map,
                     Sorted(Range(MemberIds(normalized_groups[i][2]))), 2, FALSE)
            ELSE consolidation_map)

\* token_groups: company_id -> tokens, for the companies that are no key of
\* the map and have two tokens or more
RECURSIVE unsafe_token_groups(_, _, _, _)
unsafe_token_groups(id_to_name, i, consolidation_map, token_groups) ==
    IF i > Len(id_to_name) THEN token_groups
    ELSE unsafe_token_groups(id_to_name, i + 1, consolidation_map,
            IF /\ ~DictHas(consolidation_map, id_to_name[i][1])
               /\ Cardinality(tokenize(Text(id_to_name[i][2]))) >= 2
            THEN Append(token_groups,
                        <<id_to_name[i][1], tokenize(Text(id_to_name[i][2]))>>)
            ELSE token_groups)

\* the inner loop over token_groups.items() for the entry a
RECURSIVE unsafe_similar(_, _, _, _, _)
unsafe_similar(token_groups, a, j, similar_group, processed) ==
    IF j > Len(token_groups)
    THEN [similar_group |-> similar_group, processed |-> processed]
    ELSE IF j = a \/ token_groups[j][1] \in processed
    THEN unsafe_similar(token_groups, a, j + 1, similar_group, processed)
    ELSE IF AtLeast(jaccard_similarity(token_groups[a][2], token_groups[j][2]), 70, 100)
    THEN unsafe_similar(token_groups, a, j + 1,
                        Append(similar_group, token_groups[j][1]),
                        processed \cup {token_groups[j][1]})
    ELSE unsafe_similar(token_groups, a, j + 1, similar_group, processed)

\* 2. Token overlap matches: the outer loop over token_groups.items()
RECURSIVE unsafe_token_stage(_, _, _, _)
RECURSIVE unsafe_token_close(_, _, _, _)
unsafe_token_close(token_groups, a, consolidation_map, found) ==
    unsafe_token_stage(token_groups, a + 1,
        IF Len(found.similar_group) > 1
        THEN unsafe_map_group(consolidation_map,
                 Sorted(Range(found.similar_group)), 2, TRUE)
        ELSE consolidation_map,
        found.processed \cup {token_groups[a][1]})

unsafe_token_stage(token_groups, a, consolidation_map, processed) ==
    IF a > Len(token_groups) THEN consolidation_map
    ELSE IF token_groups[a][1] \in processed
    THEN unsafe_token_stage(token_groups, a + 1, consolidation_map, processed)
    ELSE unsafe_token_close(token_groups, a, consolidation_map,
            unsafe_similar(token_groups, a, 1, <<token_groups[a][1]>>, processed))

unsafe_token_overlap_pass(id_to_name, consolidation_map) ==
    unsafe_token_stage(unsafe_token_groups(id_to_name, 1, consolidation_map, <<>>),
                       1, consolidation_map, {})

\* 3. First entity matches: the first other company that is no key of the
\* map and whose normalized name is the normalized first entity
unsafe_first_entity_found(consolidation_map, company_id, id_to_name, found) ==
    IF found = {} THEN consolidation_map
    ELSE DictSet(consolidation_map, company_id, id_to_name[Min(found)][1])

unsafe_first_entity_of(consolidation_map, id_to_name, company_id, company_name, first_entity) ==
    IF lower(first_entity) = lower(company_name) THEN consolidation_map
    ELSE IF normalize_name(first_entity) = <<>> THEN consolidation_map
    ELSE unsafe_first_entity_found(consolidation_map, company_id, id_to_name,
            {k \in 1..Len(id_to_name) :
                /\ id_to_name[k][1] # company_id
                /\ ~DictHas(consolidation_map, id_to_name[k][1])
                /\ normalize_name(Text(id_to_name[k][2])) = normalize_name(first_entity)})

RECURSIVE unsafe_first_entity_stage(_, _, _)
unsafe_first_entity_stage(id_to_name, i, consolidation_map) ==
    IF i > Len(id_to_name) THEN consolidation_map
    ELSE unsafe_first_entity_stage(id_to_name, i + 1,
            IF DictHas(consolidation_map, id_to_name[i][1]) THEN consolidation_map
            ELSE unsafe_first_entity_of(consolidation_map, id_to_name, id_to_name[i][1],
                     Text(id_to_name[i][2]), extract_first_entity(Text(id_to_name[i][2]))))

\* consolidation_map of consolidate_company_duplicates for a company table
unsafe_map_from(id_to_name) ==
    unsafe_first_entity_stage(id_to_name, 1,
        unsafe_token_overlap_pass(id_to_name,
            unsafe_normalized_stage(build_normalized_groups(id_to_name, 1, <<>>), 1, <<>>)))

\* "if not dry_run": one pass over the holdings, then holdings.to_csv
unsafe_apply(consolidation_map) ==
    /\ holdings' = remapped_holdings(consolidation_map, holdings)
    /\ last' = [op |-> "consolidate_unsafe", op_before |-> last.op,
                holdings_before |-> holdings, aliases_before |-> aliases,
                log_before |-> log, updated_before |-> last.holdings_updated,
                consolidation_groups |-> <<>>,
                consolidation_map |-> consolidation_map, skipped |-> <<>>,
                holdings_updated |-> count_updated(consolidation_map, holdings),
                raised |-> FALSE]

consolidate_company_duplicates ==
    /\ runs < MaxRuns
    /\ IF read_csv_raises({DIM_COMPANY, FACT_REPORTED_HOLDING})
       THEN raises("consolidate_unsafe_aborted")
       ELSE /\ unsafe_apply(unsafe_map_from(build_company_id_to_name(companies, 1, <<>>)))
            /\ UNCHANGED <<aliases, log, log_exists>>
    /\ runs' = runs + 1
    /\ UNCHANGED <<companies, missing>>

\* The command line with --consolidate-unsafe, run after run.
NextUnsafe == consolidate_company_duplicates

SpecUnsafe == Init /\ [][NextUnsafe]_vars

(***************************************************************************)
(* Properties.  They speak of the run that led to the current state        *)
(* through the history variable last.                                      *)
(***************************************************************************)

\* C1: a Resolver run never changes the company_id of a holding that has one
\* at the start of the run; a company_id can change only in a Consolidation
\* run, and it never becomes null again.
C1_ResolvedIdsKept ==
    last.op # "none" =>
        \A i \in 1..Len(holdings) :
            ~is_null(last.holdings_before[i].company_id) =>
                /\ ~is_null(holdings[i].company_id)
                /\ last.op = "resolve" =>
                       holdings[i].company_id = last.holdings_before[i].company_id

\* A Resolver run met a holding with a company_id whose raw name is the name
\* of a different company, and left it alone.
C1_Witness ==
    /\ last.op = "resolve"
    /\ \E i \in 1..Len(holdings) :
          /\ ~is_null(last.holdings_before[i].company_id)
          /\ direct_match(Registry(companies, aliases),
                          Text(holdings[i].raw_company_name))
                 \notin {NaN, last.holdings_before[i].company_id}
          /\ holdings[i].company_id = last.holdings_before[i].company_id

\* C2: in the consolidation map every duplicate id has exactly one canonical
\* id, no canonical id is a key of the map and no company maps to itself, so
\* one step duplicate -> canonical ends at a company that is not a duplicate.
C2_MapIsFunctionWithoutChains ==
    last.op = "consolidate" =>
        LET groups == last.consolidation_groups
            map == last.consolidation_map
        IN  /\ \A g, h \in 1..Len(groups) :
                  \A a \in 1..Len(groups[g].duplicate_ids),
                     b \in 1..Len(groups[h].duplicate_ids) :
                      groups[g].duplicate_ids[a] = groups[h].duplicate_ids[b]
                          => g = h /\ a = b
            /\ \A g \in 1..Len(groups) :
                  \A a \in 1..Len(groups[g].duplicate_ids) :
                      /\ DictHas(map, groups[g].duplicate_ids[a])
                      /\ DictGet(map, groups[g].duplicate_ids[a]) = groups[g].canonical_id
            /\ DictKeys(map) \cap DictValues(map) = {}
            /\ \A k \in 1..Len(map) : map[k][1] # map[k][2]

\* A Consolidation run that formed two groups and so a map with two
\* canonical ids.
C2_Witness ==
    /\ last.op = "consolidate"
    /\ Len(last.consolidation_groups) >= 2
    /\ Cardinality(DictValues(last.consolidation_map)) >= 2

\* C3: the match_method of every holding the Resolver processed is the first
\* strategy in the order direct, alias, normalized, token_overlap,
\* first_entity that finds a company, with that strategy's company and
\* confidence; a raw name equal to a company name without regard to case is
\* direct with confidence 1.0 whatever else matches.
C3_FirstStrategyWins ==
    last.op = "resolve" =>
        \A e \in 1..Len(log) :
            LET reg == Registry(companies, aliases)
                raw_name == Text(log[e].raw_company_name)
                found == <<direct_match(reg, raw_name), alias_match(reg, raw_name),
                           normalized_match(reg, raw_name),
                           token_overlap_match(reg, raw_name),
                           first_entity_match(reg, raw_name)>>
                method == <<"direct", "alias", "normalized", "token_overlap",
                            "first_entity">>
                confidence == <<CONF_DIRECT, CONF_ALIAS, CONF_NORMALIZED,
                                CONF_TOKEN_OVERLAP, CONF_FIRST_ENTITY>>
                hits == {k \in 1..5 : found[k] # NaN}
            IN  IF hits = {}
                THEN /\ log[e].match_method = "unresolved"
                     /\ log[e].matched_company_id = NaN
                ELSE /\ log[e].match_method = method[Min(hits)]
                     /\ log[e].matched_company_id = found[Min(hits)]
                     /\ log[e].match_confidence = confidence[Min(hits)]

\* The Resolver reported direct with confidence 1.0 for a raw name that an
\* alias row maps to a different company.
C3_Witness ==
    /\ last.op = "resolve"
    /\ \E e \in 1..Len(log) :
          /\ log[e].match_method = "direct"
          /\ log[e].match_confidence = CONF_DIRECT
          /\ alias_match(Registry(companies, aliases), Text(log[e].raw_company_name))
                 \notin {NaN, log[e].matched_company_id}

\* C4: a Resolver run that directly follows a Resolver run skips every holding
\* the first run resolved, resolves nothing new and leaves every company_id as
\* the first run left it.
C4_SecondResolveAddsNothing ==
    (last.op = "resolve" /\ last.op_before = "resolve") =>
        /\ \A i \in 1..Len(holdings) :
              holdings[i].company_id = last.holdings_before[i].company_id
        /\ \A e \in 1..Len(log) : is_null(log[e].matched_company_id)
        /\ \A b \in 1..Len(last.log_before) :
              ~is_null(last.log_before[b].matched_company_id) =>
                  \A e \in 1..Len(log) :
                      log[e].reported_holding_id
                          # last.log_before[b].reported_holding_id

\* Two Resolver runs in a row, the first of which resolved a holding and left
\* another unresolved, which the second tried again.
C4_Witness ==
    /\ last.op = "resolve"
    /\ last.op_before = "resolve"
    /\ \E b \in 1..Len(last.log_before) :
          ~is_null(last.log_before[b].matched_company_id)
    /\ log # <<>>

\* C5: after a Consolidation run every holding whose company_id was a key of
\* the run's consolidation map carries the mapped canonical id, no holding
\* carries a key of the map, and every other holding is as it was.
C5_HoldingsRemapped ==
    last.op = "consolidate" =>
        \A i \in 1..Len(holdings) :
            LET before == last.holdings_before[i]
                map == last.consolidation_map
            IN  /\ holdings[i].company_id \notin DictKeys(map)
                /\ IF before.company_id # NaN /\ before.company_id \in DictKeys(map)
                   THEN /\ holdings[i].company_id = DictGet(map, before.company_id)
                        /\ holdings[i].reported_holding_id = before.reported_holding_id
                        /\ holdings[i].raw_company_name = before.raw_company_name
                   ELSE holdings[i] = before

\* A Consolidation run that redirected two holdings from duplicates.
C5_Witness ==
    /\ last.op = "consolidate"
    /\ \E i, j \in 1..Len(holdings) :
          /\ i # j
          /\ last.holdings_before[i].company_id \in DictKeys(last.consolidation_map)
          /\ last.holdings_before[j].company_id \in DictKeys(last.consolidation_map)
          /\ holdings[i].company_id \in DictValues(last.consolidation_map)
          /\ holdings[j].company_id \in DictValues(last.consolidation_map)

\* C6: the log is append-only: every entry that was in the log before a run
\* is in the log, unchanged, after the run.
C6_LogAppendOnly ==
    last.op # "none" =>
        \A b \in 1..Len(last.log_before) :
            \E e \in 1..Len(log) : log[e] = last.log_before[b]

\* C7: the log holds at most one consolidation entry per merged (canonical,
\* duplicate) pair, however often Consolidation has run.
C7_OneLogEntryPerPair ==
    \A i, j \in 1..Len(log) :
        (/\ "action" \in DOMAIN log[i]
         /\ "action" \in DOMAIN log[j]
         /\ log[i].canonical_company_id = log[j].canonical_company_id
         /\ log[i].duplicate_company_id = log[j].duplicate_company_id)
            => i = j

\* C8: a Consolidation run that directly follows a Consolidation run changes
\* no holding: holdings_updated is 0.
C8_SecondConsolidationKeepsHoldings ==
    (last.op = "consolidate" /\ last.op_before = "consolidate") =>
        /\ holdings = last.holdings_before
        /\ last.holdings_updated = 0

\* Two Consolidation runs in a row, the first of which redirected a holding;
\* the second computed a map again.
C8_Witness ==
    /\ last.op = "consolidate"
    /\ last.op_before = "consolidate"
    /\ last.updated_before > 0
    /\ last.consolidation_map # <<>>

\* C9: for each duplicate of the consolidation map a Consolidation run appends
\* one alias row with the duplicate's name, the canonical id and entity_type
\* company, unless an alias row with the same text, case ignored, exists
\* already; it appends nothing else, and over all runs no alias text is
\* appended beside a row with the same text.
C9_OneAliasPerDuplicate ==
    /\ \A a, b \in 1..Len(aliases) :
          (aliases[a].alias_id[1] = "alias" /\ a # b) =>
              lower(Text(aliases[a].alias_text)) # lower(Text(aliases[b].alias_text))
    /\ last.op = "consolidate" =>
          LET before == last.aliases_before
              map == last.consolidation_map
              added == (Len(before) + 1)..Len(aliases)
              name_of(id) ==
                  companies[CHOOSE r \in 1..Len(companies) :
                                companies[r].company_id = id].company_name
              text(n) == lower(Text(n))
              row_for(a, k) ==
                  /\ aliases[a].alias_text = name_of(map[k][1])
                  /\ aliases[a].entity_id = map[k][2]
                  /\ aliases[a].entity_type = COMPANY_TYPE
          IN  /\ Len(aliases) >= Len(before)
              /\ \A k \in 1..Len(map) :
                    IF \E r \in 1..Len(before) :
                           text(before[r].alias_text) = text(name_of(map[k][1]))
                    THEN \A a \in added :
                             text(aliases[a].alias_text) # text(name_of(map[k][1]))
                    ELSE \E a \in added :
                             /\ text(aliases[a].alias_text) = text(name_of(map[k][1]))
                             /\ \E j \in 1..Len(map) : row_for(a, j)
                             /\ \A b \in added :
                                    text(aliases[b].alias_text) = text(aliases[a].alias_text)
                                        => b = a
              /\ \A a \in added : \E k \in 1..Len(map) : row_for(a, k)

\* A Consolidation run with two duplicates: the name of one was the text of an
\* alias row already, in another case, and got no row; the other got its row.
C9_Witness ==
    /\ last.op = "consolidate"
    /\ Len(aliases) > Len(last.aliases_before)
    /\ \E k \in 1..Len(last.consolidation_map), r \in 1..Len(last.aliases_before) :
          /\ lower(Text(last.aliases_before[r].alias_text))
                 = lower(Text(companies[last.consolidation_map[k][1]].company_name))
          /\ last.aliases_before[r].alias_text
                 # companies[last.consolidation_map[k][1]].company_name

\* C10: a Consolidation run leaves the company rows as they are and keeps
\* every alias row it found, unchanged and in place; new alias rows come
\* after them.
C10_NoDestructiveWrites ==
    [][last'.op = "consolidate" =>
          /\ companies' = companies
          /\ Len(aliases') >= Len(aliases)
          /\ \A r \in 1..Len(aliases) : aliases'[r] = aliases[r]]_vars

\* A Consolidation run that found alias rows, added one and redirected a
\* holding.
C10_Witness ==
    /\ last.op = "consolidate"
    /\ last.aliases_before # <<>>
    /\ Len(aliases) > Len(last.aliases_before)
    /\ last.holdings_updated > 0

\* C11: the normalized stage merges a group of several companies with the
\* same normalized name only if that name has at least two words and all
\* members have the same first word; a group that fails a check is recorded
\* in skipped and none of its members enters a group of this stage.
C11_NormalizedGroupsChecked ==
    last.op = "consolidate" =>
        LET groups == last.consolidation_groups
            rows == 1..Len(companies)
            norm(r) == normalize_name(Text(companies[r].company_name))
            of_group(g) == {groups[g].canonical_id} \cup Range(groups[g].duplicate_ids)
            normalized_groups == {g \in 1..Len(groups) : groups[g].method = "normalized"}
            together(r, q) ==
                \E g \in normalized_groups :
                    {companies[r].company_id, companies[q].company_id} \subseteq of_group(g)
            apart(r) ==
                \A g \in normalized_groups : companies[r].company_id \notin of_group(g)
            recorded(normalized) ==
                \E s \in 1..Len(last.skipped) :
                    last.skipped[s][1] = normalized /\ last.skipped[s][2] = "normalized"
            checked(normalized, other) ==
                /\ Len(split(normalized)) >= 2
                /\ split(other)[1] = split(normalized)[1]
            same(r, q, nr, nq) ==
                IF nr # nq THEN ~together(r, q)
                ELSE IF nr = <<>> THEN apart(r) /\ apart(q)
                ELSE IF checked(nr, nq) THEN together(r, q)
                ELSE recorded(nr) /\ apart(r) /\ apart(q)
        IN  /\ \A r, q \in rows : r < q => same(r, q, norm(r), norm(q))
            /\ \A g \in normalized_groups : groups[g].duplicate_ids # <<>>

\* A Consolidation run that met two companies with the same one-word
\* normalized name, recorded them in skipped and merged neither.
C11_Witness ==
    /\ last.op = "consolidate"
    /\ \E s \in 1..Len(last.skipped) :
          /\ last.skipped[s][2] = "normalized"
          /\ \E r, q \in 1..Len(companies) :
                /\ r # q
                /\ normalize_name(Text(companies[r].company_name)) = last.skipped[s][1]
                /\ normalize_name(Text(companies[q].company_name)) = last.skipped[s][1]
                /\ companies[r].company_id \notin DictKeys(last.consolidation_map)
                /\ companies[q].company_id \notin DictKeys(last.consolidation_map)

\* C12: every (canonical, duplicate) pair merged with method token_overlap
\* consists of two companies outside every normalized-stage group whose
\* token sets have Jaccard similarity >= 0.90.
C12_TokenOverlapPairsSimilar ==
    last.op = "consolidate" =>
        LET groups == last.consolidation_groups
            name_of(cid) ==
                Text(companies[CHOOSE r \in 1..Len(companies) :
                                   companies[r].company_id = cid].company_name)
            in_normalized_group(cid) ==
                \E g \in 1..Len(groups) :
                    /\ groups[g].method = "normalized"
                    /\ cid \in {groups[g].canonical_id} \cup Range(groups[g].duplicate_ids)
        IN  \A g \in 1..Len(groups) :
                groups[g].method = "token_overlap" =>
                    \A d \in Range(groups[g].duplicate_ids) :
                        /\ ~in_normalized_group(groups[g].canonical_id)
                        /\ ~in_normalized_group(d)
                        /\ AtLeast(jaccard_similarity(tokenize(name_of(groups[g].canonical_id)),
                                                      tokenize(name_of(d))), 90, 100)

\* C13: in a group of the first-entity stage the company with the
\* multi-entity name is the duplicate, and the canonical is the company whose
\* normalized name equals the normalized first entity.
C13_MultiEntityIsDuplicate ==
    last.op = "consolidate" =>
        LET groups == last.consolidation_groups
            name_of(cid) ==
                Text(companies[CHOOSE r \in 1..Len(companies) :
                                   companies[r].company_id = cid].company_name)
        IN  \A g \in 1..Len(groups) :
                groups[g].method = "first_entity" =>
                    /\ normalize_name(name_of(groups[g].canonical_id))
                           = normalize_name(groups[g].reason[2])
                    /\ \A d \in Range(groups[g].duplicate_ids) :
                          /\ extract_first_entity(name_of(d)) = groups[g].reason[2]
                          /\ lower(extract_first_entity(name_of(d))) # lower(name_of(d))

\* C14: in every consolidation group the canonical comes before every other
\* member in the order: no " and " before " and ", then no parenthesis before
\* parenthesis, then shorter name, then earlier position in the group; every
\* other member is a duplicate that the map sends to the canonical.
C14_CanonicalIsMinimal ==
    last.op = "consolidate" =>
        LET groups == last.consolidation_groups
            row(cid) == CHOOSE r \in 1..Len(companies) : companies[r].company_id = cid
            name_of(cid) == Text(companies[row(cid)].company_name)
            has_and(n) ==
                IF \E i \in 1..(Len(n) - 4) :
                       /\ n[i] = " " /\ n[i + 1] \in {"a", "A"} /\ n[i + 2] \in {"n", "N"}
                       /\ n[i + 3] \in {"d", "D"} /\ n[i + 4] = " "
                THEN 1 ELSE 0
            has_parens(n) == IF \E i \in 1..Len(n) : n[i] = "(" THEN 1 ELSE 0
            \* the member whose first entity the first-entity stage looked up
            \* stands first in its group; the other groups are in table order
            extracts(g, cid) ==
                /\ extract_first_entity(name_of(cid)) = groups[g].reason[2]
                /\ lower(groups[g].reason[2]) # lower(name_of(cid))
            position(g, cid, other) ==
                IF groups[g].method = "first_entity"
                THEN IF extracts(g, cid) /\ (extracts(g, other) => row(cid) < row(other))
                     THEN 1 ELSE 2
                ELSE row(cid)
            key(g, cid, other) ==
                <<has_and(name_of(cid)), has_parens(name_of(cid)), Len(name_of(cid)),
                  position(g, cid, other)>>
            less(k1, k2) ==
                \E p \in 1..4 : k1[p] < k2[p] /\ \A q \in 1..(p - 1) : k1[q] = k2[q]
        IN  \A g \in 1..Len(groups) :
                \A d \in Range(groups[g].duplicate_ids) :
                    /\ d # groups[g].canonical_id
                    /\ less(key(g, groups[g].canonical_id, d), key(g, d, groups[g].canonical_id))
                    /\ DictHas(last.consolidation_map, d)
                    /\ DictGet(last.consolidation_map, d) = groups[g].canonical_id

\* A group whose canonical is neither the first member nor the only member
\* of its length: one duplicate stands earlier in the table and is longer,
\* another is as long as the canonical and stands later.
C14_Witness ==
    /\ last.op = "consolidate"
    /\ \E g \in 1..Len(last.consolidation_groups) :
          LET grp == last.consolidation_groups[g]
              row(cid) == CHOOSE r \in 1..Len(companies) : companies[r].company_id = cid
              len(cid) == Len(Text(companies[row(cid)].company_name))
          IN  \E d1, d2 \in Range(grp.duplicate_ids) :
                  /\ row(d1) < row(grp.canonical_id)
                  /\ len(d1) > len(grp.canonical_id)
                  /\ row(d2) > row(grp.canonical_id)
                  /\ len(d2) = len(grp.canonical_id)

\* C15: a Resolver run writes exactly one log entry for each holding whose
\* company_id was null when the run started, matched or not, and no entry
\* for a holding that already had a company_id.
C15_OneEntryPerNullHolding ==
    last.op = "resolve" =>
        LET before == last.holdings_before
            entries_of(h) ==
                {e \in 1..Len(log) :
                    log[e].reported_holding_id = before[h].reported_holding_id}
        IN  /\ \A h \in 1..Len(before) :
                  Cardinality(entries_of(h)) = IF before[h].company_id = NaN THEN 1 ELSE 0
            /\ \A e \in 1..Len(log) : \E h \in 1..Len(before) : e \in entries_of(h)

\* A Resolver run over a holding that was already resolved (no entry) and a
\* holding with no company that stays unresolved (one entry).
C15_Witness ==
    /\ last.op = "resolve"
    /\ \E h \in 1..Len(last.holdings_before) : last.holdings_before[h].company_id # NaN
    /\ \E h \in 1..Len(last.holdings_before) :
          /\ last.holdings_before[h].company_id = NaN
          /\ \E e \in 1..Len(log) :
                /\ log[e].reported_holding_id = last.holdings_before[h].reported_holding_id
                /\ log[e].match_method = "unresolved"

C17_MustangByFirstEntity ==
    last.op = "resolve" =>
        LET reg == Registry(companies, last.aliases_before)
            before == last.holdings_before
        IN  \A h \in 1..Len(before) :
                /\ before[h].company_id = NaN
                /\ before[h].raw_company_name = 6
                /\ \E r \in 1..Len(companies) : companies[r].company_name = 5
                /\ direct_match(reg, Text(6)) = NaN
                /\ alias_match(reg, Text(6)) = NaN
                /\ normalized_match(reg, Text(6)) = NaN
                => \E e \in 1..Len(log) :
                      /\ log[e].reported_holding_id = before[h].reported_holding_id
                      /\ log[e].match_method = "first_entity"
                      /\ log[e].match_confidence = 75
                      /\ extract_first_entity(Text(6)) = Text(5)

\* C17: in that case the holding is logged with method token_overlap and
\* confidence 0.80 (80 hundredths): the raw name and the matched company have
\* the same token set, {mustang, prospects}, as has "Mustang Prospects
\* Holdco, LLC", which is also the first entity of the raw name; the
\* token-overlap strategy comes first.
C17_MustangByTokenOverlap ==
    last.op = "resolve" =>
        LET reg == Registry(companies, last.aliases_before)
            before == last.holdings_before
        IN  \A h \in 1..Len(before) :
                /\ before[h].company_id = NaN
                /\ before[h].raw_company_name = 6
                /\ \E r \in 1..Len(companies) : companies[r].company_name = 5
                /\ direct_match(reg, Text(6)) = NaN
                /\ alias_match(reg, Text(6)) = NaN
                /\ normalized_match(reg, Text(6)) = NaN
                => \E e \in 1..Len(log) :
                      /\ log[e].reported_holding_id = before[h].reported_holding_id
                      /\ log[e].match_method = "token_overlap"
                      /\ log[e].match_confidence = 80
                      /\ \E r \in 1..Len(companies) :
                            /\ companies[r].company_id = log[e].matched_company_id
                            /\ tokenize(Text(companies[r].company_name)) = tokenize(Text(6))
                      /\ tokenize(Text(5)) = tokenize(Text(6))
                      /\ Cardinality(tokenize(Text(6))) = 2
                      /\ extract_first_entity(Text(6)) = Text(5)

\* A Resolver run over a holding with the long Mustang name and no company,
\* with "Mustang Prospects Holdco, LLC" in the company table and the long
\* name in neither the company table nor the aliases.
C17_Witness ==
    /\ last.op = "resolve"
    /\ \E r \in 1..Len(companies) : companies[r].company_name = 5
    /\ \A r \in 1..Len(companies) : companies[r].company_name # 6
    /\ \A a \in 1..Len(last.aliases_before) : last.aliases_before[a].alias_text # 6
    /\ \E h \in 1..Len(last.holdings_before) :
          /\ last.holdings_before[h].company_id = NaN
          /\ last.holdings_before[h].raw_company_name = 6
          /\ \E e \in 1..Len(log) :
                /\ log[e].reported_holding_id = last.holdings_before[h].reported_holding_id
                /\ log[e].match_method = "token_overlap"

\* C18 as stated: with the companies NamePool[1], "Aptean, Inc.", and
\* NamePool[2], "Aptean Acquiror, Inc.", both present, Consolidation merges
\* them: "Aptean, Inc." is the canonical, the map sends "Aptean Acquiror,
\* Inc." to it, and one alias row is created for "Aptean Acquiror, Inc.".
C18_ApteanMerged ==
    last.op = "consolidate" =>
        \A r1, r2 \in 1..Len(companies) :
            companies[r1].company_name = 1 /\ companies[r2].company_name = 2 =>
                /\ DictHas(last.consolidation_map, companies[r2].company_id)
                /\ DictGet(last.consolidation_map, companies[r2].company_id)
                       = companies[r1].company_id
                /\ Cardinality({a \in 1..Len(aliases) :
                                   /\ aliases[a].alias_text = 2
                                   /\ aliases[a].entity_id = companies[r1].company_id}) = 1

\* C18: with both companies present Consolidation does not merge them: both
\* names normalize to the single word "aptean", the group is recorded in
\* skipped by the single-word rule of the normalized stage, neither company
\* is a key or a value of the map, and no alias row is added for either name.
C18_ApteanSkipped ==
    last.op = "consolidate" =>
        \A r1, r2 \in 1..Len(companies) :
            companies[r1].company_name = 1 /\ companies[r2].company_name = 2 =>
                /\ normalize_name(Text(1)) = <<"a", "p", "t", "e", "a", "n">>
                /\ normalize_name(Text(2)) = <<"a", "p", "t", "e", "a", "n">>
                /\ \E s \in 1..Len(last.skipped) :
                      last.skipped[s] = <<<<"a", "p", "t", "e", "a", "n">>, "normalized",
                                          "single-word match too generic">>
                /\ {companies[r1].company_id, companies[r2].company_id}
                       \cap (DictKeys(last.consolidation_map)
                                \cup DictValues(last.consolidation_map)) = {}
                /\ \A a \in 1..Len(aliases) :
                      aliases[a].alias_text \in {1, 2} =>
                          \E b \in 1..Len(last.aliases_before) :
                              last.aliases_before[b] = aliases[a]

\* A Consolidation run over a company table that holds "Aptean, Inc." and
\* "Aptean Acquiror, Inc.".
C18_Witness ==
    /\ last.op = "consolidate"
    /\ \E r1, r2 \in 1..Len(companies) :
          companies[r1].company_name = 1 /\ companies[r2].company_name = 2
    /\ last.skipped # <<>>

\* C19 as stated: with the companies NamePool[3], "Summit", and NamePool[4],
\* "Summit Partners", present, Consolidation does not merge them and records
\* the candidate in skipped by the single-word rule of the normalized stage.
C19_SummitSkippedAsSingleWord ==
    last.op = "consolidate" =>
        \A r1, r2 \in 1..Len(companies) :
            companies[r1].company_name = 3 /\ companies[r2].company_name = 4 =>
                /\ ~DictHas(last.consolidation_map, companies[r1].company_id)
                /\ ~DictHas(last.consolidation_map, companies[r2].company_id)
                /\ \E s \in 1..Len(last.skipped) :
                      /\ last.skipped[s][1] \in {normalize_name(Text(3)), normalize_name(Text(4))}
                      /\ last.skipped[s][2] = "normalized"
                      /\ last.skipped[s][3] = "single-word match too generic"

\* C19: with both companies present, and no third company with the
\* normalized name of either, Consolidation does not merge them and records
\* nothing about them in skipped: "summit" and "summit partners" are groups
\* of one member each, and "Summit" has a single token, so the token stage
\* does not compare it.
C19_SummitNotACandidate ==
    last.op = "consolidate" =>
        \A r1, r2 \in 1..Len(companies) :
            /\ companies[r1].company_name = 3
            /\ companies[r2].company_name = 4
            /\ \A r \in 1..Len(companies) :
                  normalize_name(Text(companies[r].company_name))
                      \in {normalize_name(Text(3)), normalize_name(Text(4))} => r \in {r1, r2}
            => /\ normalize_name(Text(3)) # normalize_name(Text(4))
               /\ Cardinality(tokenize(Text(3))) = 1
               /\ ~DictHas(last.consolidation_map, companies[r1].company_id)
               /\ ~DictHas(last.consolidation_map, companies[r2].company_id)
               /\ \A s \in 1..Len(last.skipped) :
                     last.skipped[s][1] \notin
                         {normalize_name(Text(3)), normalize_name(Text(4)), Text(3), Text(4),
                          Text(3) \o <<" ", "<", "-", ">", " ">> \o Text(4),
                          Text(4) \o <<" ", "<", "-", ">", " ">> \o Text(3)}

\* A Consolidation run over a company table that holds "Summit" and "Summit
\* Partners" and leaves both unmapped.
C19_Witness ==
    /\ last.op = "consolidate"
    /\ \E r1, r2 \in 1..Len(companies) :
          /\ companies[r1].company_name = 3
          /\ companies[r2].company_name = 4
          /\ ~DictHas(last.consolidation_map, companies[r1].company_id)
          /\ ~DictHas(last.consolidation_map, companies[r2].company_id)

\* C20: within a Resolver run the outcome for a holding depends only on the
\* registry built from the tables at the start of the run and on the
\* holding's own raw name: its log entry and its new row are those of a run
\* over that holding alone, the entries of a run over the holdings in the
\* opposite order are the same, and the run leaves the company and alias
\* tables, from which the registry is built, as they were.
C20_OutcomeIndependentOfBatch ==
    last.op = "resolve" =>
        LET reg == Registry(companies, last.aliases_before)
            before == last.holdings_before
            reversed == [i \in 1..Len(before) |-> before[Len(before) + 1 - i]]
        IN  /\ aliases = last.aliases_before
            /\ \A h \in 1..Len(before) :
                  /\ holdings[h] = resolved_holdings(reg, <<before[h]>>)[1]
                  /\ before[h].company_id = NaN =>
                        \E e \in 1..Len(log) :
                            <<log[e]>> = resolution_entries(reg, <<before[h]>>, 1, <<>>)
            /\ Range(resolution_entries(reg, reversed, 1, <<>>)) = Range(log)
            /\ Len(resolution_entries(reg, reversed, 1, <<>>)) = Len(log)

\* A Resolver run over two holdings with the same raw name and no company,
\* both matched by a strategy after the alias lookup.
C20_Witness ==
    /\ last.op = "resolve"
    /\ \E h1, h2 \in 1..Len(last.holdings_before) :
          /\ h1 # h2
          /\ last.holdings_before[h1].company_id = NaN
          /\ last.holdings_before[h2].company_id = NaN
          /\ last.holdings_before[h1].raw_company_name
                 = last.holdings_before[h2].raw_company_name
    /\ \A e \in 1..Len(log) :
          log[e].match_method \in {"normalized", "token_overlap", "first_entity"}
    /\ Len(log) >= 2

\* C21: the grouping of a Consolidation run does not depend on the row
\* order of the company table: a run over the same companies in any other
\* row order selects the same canonicals with the same duplicates, builds
\* the same map and records the same skipped entries.
C21_RowOrderIrrelevant ==
    last.op = "consolidate" =>
        LET n == Len(companies)
            selection(groups) ==
                {<<groups[g].canonical_id, Range(groups[g].duplicate_ids)>> :
                    g \in 1..Len(groups)}
            same(plan) ==
                /\ selection(plan.consolidation_groups) = selection(last.consolidation_groups)
                /\ Range(build_consolidation_map(group_pairs(plan.consolidation_groups, 1),
                                                 1, <<>>))
                       = Range(last.consolidation_map)
                /\ Range(plan.skipped) = Range(last.skipped)
        IN  \A order \in {p \in [1..n -> 1..n] : \A i, j \in 1..n : i # j => p[i] # p[j]} :
                same(consolidation_plan([i \in 1..n |-> companies[order[i]]]))

C25_NearPairsSkipped ==
    last.op = "consolidate" =>
        LET groups == last.consolidation_groups
            name_of(r) == Text(companies[r].company_name)
            of_group(g) == {groups[g].canonical_id} \cup Range(groups[g].duplicate_ids)
            in_normalized_group(r) ==
                \E g \in 1..Len(groups) :
                    groups[g].method = "normalized" /\ companies[r].company_id \in of_group(g)
            near(r, q) ==
                /\ Cardinality(tokenize(name_of(r))) >= 2
                /\ Cardinality(tokenize(name_of(q))) >= 2
                /\ AtLeast(jaccard_similarity(tokenize(name_of(r)), tokenize(name_of(q))), 70, 100)
                /\ ~AtLeast(jaccard_similarity(tokenize(name_of(r)), tokenize(name_of(q))), 90, 100)
            pair_text(r, q) == name_of(r) \o <<" ", "<", "-", ">", " ">> \o name_of(q)
        IN  \A r, q \in 1..Len(companies) :
                r < q /\ ~in_normalized_group(r) /\ ~in_normalized_group(q) /\ near(r, q) =>
                    /\ \E s \in 1..Len(last.skipped) :
                          /\ last.skipped[s][2] = "token_overlap"
                          /\ last.skipped[s][1] \in {pair_text(r, q), pair_text(q, r)}
                    /\ \A g \in 1..Len(groups) :
                          ~({companies[r].company_id, companies[q].company_id}
                                \subseteq of_group(g))

\* C26: the token-overlap strategy of the Resolver is tried only for a raw
\* name of at least two tokens; among the entries of company_tokens whose
\* Jaccard similarity with the raw name is at least 0.70 it takes the most
\* similar one, the first in the order of the dictionary when several are
\* equally similar, and it finds nothing when no entry reaches 0.70.
C26_BestTokenMatch ==
    last.op = "resolve" =>
        LET reg == Registry(companies, last.aliases_before)
            before == last.holdings_before
            raw(h) == Text(before[h].raw_company_name)
            entries == reg.company_tokens
            sim(h, i) == jaccard_similarity(tokenize(raw(h)), entries[i][2][1])
            good(h) == {i \in 1..Len(entries) : AtLeast(sim(h, i), 70, 100)}
            best(h) ==
                CHOOSE i \in good(h) :
                    \A j \in good(h) :
                        /\ ~Greater(sim(h, j), sim(h, i))
                        /\ j < i => Greater(sim(h, i), sim(h, j))
            entry_of(h) ==
                log[CHOOSE e \in 1..Len(log) :
                        log[e].reported_holding_id = before[h].reported_holding_id]
        IN  \A h \in 1..Len(before) :
                /\ before[h].company_id = NaN
                /\ direct_match(reg, raw(h)) = NaN
                /\ alias_match(reg, raw(h)) = NaN
                /\ normalized_match(reg, raw(h)) = NaN
                => IF Cardinality(tokenize(raw(h))) >= 2 /\ good(h) # {}
                   THEN /\ entry_of(h).match_method = "token_overlap"
                        /\ entry_of(h).matched_company_id = entries[best(h)][2][2]
                   ELSE entry_of(h).match_method # "token_overlap"

\* A Resolver run that matched a holding by token overlap where two entries
\* of company_tokens are equally similar to the raw name, and the first won.
C26_Witness ==
    /\ last.op = "resolve"
    /\ \E e \in 1..Len(log) :
          /\ log[e].match_method = "token_overlap"
          /\ \E r1, r2 \in 1..Len(companies) :
                /\ r1 < r2
                /\ companies[r1].company_id = log[e].matched_company_id
                /\ tokenize(Text(companies[r1].company_name))
                       # tokenize(Text(companies[r2].company_name))
                /\ jaccard_similarity(tokenize(Text(log[e].raw_company_name)),
                                      tokenize(Text(companies[r1].company_name)))
                       = jaccard_similarity(tokenize(Text(log[e].raw_company_name)),
                                            tokenize(Text(companies[r2].company_name)))

\* C27: in the registry a Resolver run builds, the normalized lookup maps the
\* normalized name of every company row to the company_id of the first row
\* of the company table with that normalized name.
C27_NormalizedFirstWriterWins ==
    last.op = "resolve" =>
        LET reg == Registry(companies, last.aliases_before)
            norm(r) == normalize_name(Text(companies[r].company_name))
            first_row(r) == Min({q \in 1..Len(companies) : norm(q) = norm(r)})
        IN  \A r \in 1..Len(companies) :
                norm(r) # <<>> =>
                    NormalizedLookup(reg, norm(r)) = companies[first_row(r)].company_id

\* C28: once a Consolidation run has merged a duplicate company into a
\* canonical one and recorded the duplicate's name as an alias of the
\* canonical, a Resolver run gives a holding whose raw name is the
\* duplicate's name, in any case of letters, the canonical's company_id and
\* never the duplicate's.
C28_DuplicateIdNotAssigned ==
    last.op = "resolve" =>
        \A a \in 1..Len(aliases), d \in 1..Len(companies), h \in 1..Len(holdings) :
            /\ aliases[a].alias_id[1] = "alias"
            /\ aliases[a].alias_text = companies[d].company_name
            /\ aliases[a].entity_id # companies[d].company_id
            /\ last.holdings_before[h].company_id = NaN
            /\ lower_strip(Text(holdings[h].raw_company_name))
                   = lower_strip(Text(companies[d].company_name))
            => /\ holdings[h].company_id = aliases[a].entity_id
               /\ holdings[h].company_id # companies[d].company_id

C29_UnsafeMapFlattened ==
    last.op = "consolidate_unsafe" =>
        /\ DictValues(last.consolidation_map) \cap DictKeys(last.consolidation_map) = {}
        /\ \A h \in 1..Len(holdings) :
              holdings[h].company_id \notin DictKeys(last.consolidation_map)

\* C22: no exception propagates out of the Resolver's matching loop: a run of
\* the Resolver that found its three input files ends without an exception,
\* and every holding that was unresolved before it has an entry in the log.
C22_LoopFailuresIsolated ==
    last.op \in {"resolve", "resolve_failed"} =>
        /\ ~last.raised
        /\ \A h \in 1..Len(last.holdings_before) :
              is_null(last.holdings_before[h].company_id) =>
                  \E e \in 1..Len(log) :
                      log[e].reported_holding_id =
                          last.holdings_before[h].reported_holding_id

\* C23: when the holdings file or the companies file is missing, every run of
\* the Resolver and of the consolidation ends with an exception and leaves
\* the holdings, the aliases and the log as they were, with no log file.
C23_MissingTableAborts ==
    (last.op # "none" /\ {DIM_COMPANY, FACT_REPORTED_HOLDING} \cap missing # {}) =>
        /\ last.raised
        /\ last.op \in {"resolve_aborted", "consolidate_aborted"}
        /\ holdings = last.holdings_before
        /\ aliases = last.aliases_before
        /\ log = last.log_before
        /\ ~log_exists

\* C23 witness: with the companies file missing and holdings and an alias
\* stored, the Resolver aborted right after the consolidation had aborted.
C23_Witness ==
    /\ DIM_COMPANY \in missing
    /\ holdings # <<>>
    /\ aliases # <<>>
    /\ last.op = "resolve_aborted"
    /\ last.op_before = "consolidate_aborted"
====
